---- MODULE Spec2Model ----
(***************************************************************************)
(* A model of the iceflow ATM1B reader (nsidc/iceflow/data/atm1b.py) and   *)
(* of the ITRF converter (nsidc/iceflow/itrf/converter.py).                *)
(*                                                                         *)
(* Python strings that the code inspects character by character (header    *)
(* text, ITRF names) are tuples of one-character strings.  Dates are       *)
(* proleptic Gregorian ordinals, which order exactly as datetime.date.     *)
(***************************************************************************)
EXTENDS Integers, Sequences, FiniteSets, TLC

VARIABLES
    pc,            \* position of the running call
    date,          \* the file date handed to the frame resolution
    header,        \* text of the qfit header (tuple of characters)
    itrfs,         \* distinct regex matches found in the header
    caller,        \* who called _qfit_itrf_from_date: "direct" or "infer"
    i,             \* _find: current index
    lower,         \* _find: lower bound
    upper,         \* _find: upper bound
    found,         \* value _find returned (None is <<>>)
    outcome,       \* how the call ended: returned value or raised exception
    log,           \* warnings logged, in order
    data,          \* transform_itrf: the rows handed in
    target_itrf,   \* transform_itrf: argument
    target_epoch,  \* transform_itrf: argument (optional)
    plate,         \* transform_itrf: argument (optional)
    calls,         \* calls of the geodesy engine made by the running call
    lookups,       \* plate_name lookups made by the running call
    first,         \* what the first transform_itrf returned, once fed back
    word,          \* qfit file: its first four bytes
    recs,          \* qfit file: the records that follow record 0
    dtype,         \* qfit file: the record layout _file_dtype selected
    ext,           \* extract_itrf: the suffix of the file path
    reference_frame, \* HDF5 file: ancillary_data/reference_frame
    filename,      \* atm1b_data: the name of the file
    content,       \* the container the file's bytes are: "qfit" or "hdf5"
    picked,        \* the container atm1b_data decodes, and the one extract_itrf reads
    parquet,       \* output_dir / "iceflow.parquet" on the file system
    overwrite,     \* create_iceflow_parquet: argument
    todo,          \* create_iceflow_parquet: per dataset, the results not yet written
    ops,           \* searches, downloads and writes made by the running call
    bbox_args,     \* BoundingBox(...): positional arguments
    bbox_kwargs,   \* BoundingBox(...): keyword arguments
    bbox,          \* the BoundingBox built
    bbox_idx       \* BoundingBox.__getitem__: argument

resolveVars == <<date, header, itrfs, caller, i, lower, upper, found, log>>

xformVars == <<data, target_itrf, target_epoch, plate, calls, lookups, first>>

decodeVars == <<word, recs, dtype>>

fileVars == <<ext, reference_frame, filename, content, picked>>

apiVars == <<parquet, overwrite, todo, ops>>

bboxVars == <<bbox_args, bbox_kwargs, bbox, bbox_idx>>

vars ==
    <<pc, outcome, resolveVars, xformVars, decodeVars, fileVars, apiVars,
      bboxVars>>

---------------------------------------------------------------------------
(* Values *)

None == <<>>

Pending == [kind |-> "pending", value |-> None, exc |-> ""]

Returned(v) == [kind |-> "return", value |-> v, exc |-> ""]

Raised(e) == [kind |-> "raise", value |-> None, exc |-> e]

\* no file name
NoFilename == [product |-> "", y |-> 0, m |-> 0, d |-> 0]

\* no container picked yet
NoPicks == [decode |-> "", itrf |-> ""]

\* no record layout selected
NoDtype == [endianness |-> "none", field_count |-> 0]

\* an optional str argument: None, or a str (possibly empty)
NoneOpt == [none |-> TRUE, str |-> ""]

Some(str) == [none |-> FALSE, str |-> str]

\* Python truth value of an optional str: None and "" are false
Truthy(o) == ~o.none /\ o.str # ""

ITRF93 == <<"I", "T", "R", "F", "9", "3">>

ITRF94 == <<"I", "T", "R", "F", "9", "4">>

ITRF96 == <<"I", "T", "R", "F", "9", "6">>

ITRF97 == <<"I", "T", "R", "F", "9", "7">>

ITRF20 == <<"I", "T", "R", "F", "2", "0">>

ITRF05 == <<"I", "T", "R", "F", "0", "5">>

ITRF08 == <<"I", "T", "R", "F", "0", "8">>

ITRF2000 == <<"I", "T", "R", "F", "2", "0", "0", "0">>

ITRF2005 == <<"I", "T", "R", "F", "2", "0", "0", "5">>

ITRF2008 == <<"I", "T", "R", "F", "2", "0", "0", "8">>

---------------------------------------------------------------------------
(* Python str operations on tuples of characters *)

LowerCase == <<"a", "b", "c", "d", "e", "f", "g", "h", "i", "j", "k", "l", "m",
               "n", "o", "p", "q", "r", "s", "t", "u", "v", "w", "x", "y", "z">>

UpperCase == <<"A", "B", "C", "D", "E", "F", "G", "H", "I", "J", "K", "L", "M",
               "N", "O", "P", "Q", "R", "S", "T", "U", "V", "W", "X", "Y", "Z">>

Digits == {"0", "1", "2", "3", "4", "5", "6", "7", "8", "9"}

\* str.upper(), one character
UpperChar(c) ==
    IF \E k \in 1..Len(LowerCase) : LowerCase[k] = c
    THEN UpperCase[CHOOSE k \in 1..Len(LowerCase) : LowerCase[k] = c]
    ELSE c

\* str.upper()
Upper(str) == [k \in 1..Len(str) |-> UpperChar(str[k])]

\* str[a:b] with 1-based inclusive positions a..b
Slice(str, a, b) == [k \in 1..(b - a + 1) |-> str[a + k - 1]]

\* lines 274-284: upper-case, then map the three known aliases
_normalize_itrf_str(itrf_str) ==
    LET u == Upper(itrf_str) IN
    IF u = ITRF05 THEN ITRF2005
    ELSE IF u = ITRF08 THEN ITRF2008
    ELSE IF u = ITRF2000 THEN ITRF20
    ELSE u

\* number of digits at positions p, p+1, ... of str, counted up to most
DigitRun(str, p, most) ==
    LET run == {n \in 0..most :
                   \A k \in 0..(n - 1) : p + k <= Len(str) /\ str[p + k] \in Digits}
    IN CHOOSE n \in run : \A m \in run : m <= n

\* length of the match of r"itrf\d{2,4}" that starts at position p (0: none);
\* the pattern is matched as written, letters in lower case, digits greedily
MatchLen(str, p) ==
    IF /\ p + 3 <= Len(str)
       /\ Slice(str, p, p + 3) = <<"i", "t", "r", "f">>
       /\ DigitRun(str, p + 4, 4) >= 2
    THEN 4 + DigitRun(str, p + 4, 4)
    ELSE 0

RECURSIVE FindIter(_, _)
\* re.finditer: the non-overlapping matches from position p on, left to right
FindIter(str, p) ==
    IF p > Len(str) THEN <<>>
    ELSE LET n == MatchLen(str, p) IN
         IF n > 0
         THEN <<Slice(str, p, p + n - 1)>> \o FindIter(str, p + n)
         ELSE FindIter(str, p + 1)

\* line 386-387: the set of distinct matches in the header
HeaderItrfs(str) == LET ms == FindIter(str, 1) IN {ms[k] : k \in 1..Len(ms)}

---------------------------------------------------------------------------
(* datetime.date: comparison of dates is comparison of their ordinals *)

IsLeap(y) == (y % 4 = 0) /\ ((y % 100 # 0) \/ (y % 400 = 0))

DaysBeforeYear(y) ==
    LET k == y - 1 IN k * 365 + (k \div 4) - (k \div 100) + (k \div 400)

DaysBeforeMonth(y, m) ==
    <<0, 31, 59, 90, 120, 151, 181, 212, 243, 273, 304, 334>>[m]
      + (IF m > 2 /\ IsLeap(y) THEN 1 ELSE 0)

Date(y, m, d) == DaysBeforeYear(y) + DaysBeforeMonth(y, m) + d

GranuleItrfRange(s, e, f) == [start |-> s, end |-> e, itrf |-> f]

ATM1B_GRANULE_ITRFS == <<
    GranuleItrfRange(Date(1993, 6, 23), Date(1996, 6, 5), ITRF93),
    GranuleItrfRange(Date(1997, 4, 25), Date(1997, 5, 28), ITRF94),
    GranuleItrfRange(Date(1998, 6, 27), Date(1999, 5, 25), ITRF96),
    GranuleItrfRange(Date(2000, 5, 12), Date(2001, 5, 27), ITRF97),
    GranuleItrfRange(Date(2001, 12, 18), Date(2002, 11, 21), ITRF2000),
    GranuleItrfRange(Date(2002, 11, 22), Date(2002, 11, 22), ITRF97),
    GranuleItrfRange(Date(2002, 11, 23), Date(2002, 12, 13), ITRF2000),
    GranuleItrfRange(Date(2002, 12, 14), Date(2002, 12, 14), ITRF97),
    GranuleItrfRange(Date(2002, 12, 15), Date(2007, 5, 11), ITRF2000),
    GranuleItrfRange(Date(2007, 9, 10), Date(2011, 5, 16), ITRF2005),
    GranuleItrfRange(Date(2011, 10, 12), Date(2018, 5, 1), ITRF2008) >>

NRanges == Len(ATM1B_GRANULE_ITRFS)

\* Python list indexing: 0-based, a negative index counts from the end.
PyIndexOk(n, k) == (k >= 0 - n) /\ (k < n)

PyIndex(seq, k) == IF k >= 0 THEN seq[k + 1] ELSE seq[Len(seq) + k + 1]

---------------------------------------------------------------------------
(* Bounds *)

\* days queried before the first range and after the last one
PadDays == 400

FirstStart == ATM1B_GRANULE_ITRFS[1].start

LastEnd == ATM1B_GRANULE_ITRFS[NRanges].end

QueryDates == (FirstStart - PadDays) .. (LastEnd + PadDays)

---------------------------------------------------------------------------
(* _qfit_itrf_from_date: the recursive search, one action per call of _find *)

\* lines 360-362: the first call of _find
QfitItrfFromDate_Enter ==
    /\ pc = "qfit_itrf_from_date"
    /\ lower' = 0
    /\ upper' = NRanges
    /\ i' = (NRanges - 0) \div 2
    /\ found' = None
    /\ pc' = "find"
    /\ UNCHANGED <<date, header, itrfs, caller, outcome, log, xformVars, decodeVars, fileVars, apiVars,
                 bboxVars>>

\* FindStep with the range test "gdt < g.end" (the end date left out)
FindStep_EndExclusive(gdt, k, lo, up) ==
    LET g == PyIndex(ATM1B_GRANULE_ITRFS, k) IN
    IF gdt < g.start
    THEN IF k > lo
         THEN [ret |-> FALSE, i |-> (k - lo) \div 2, lower |-> lo, upper |-> k,
               value |-> None]
         ELSE [ret |-> TRUE, i |-> k, lower |-> lo, upper |-> up, value |-> None]
    ELSE IF gdt < g.end
    THEN [ret |-> TRUE, i |-> k, lower |-> lo, upper |-> up, value |-> g.itrf]
    ELSE IF k < up - 1
    THEN [ret |-> FALSE, i |-> (up + k) \div 2, lower |-> k, upper |-> up,
          value |-> None]
    ELSE [ret |-> TRUE, i |-> k, lower |-> lo, upper |-> up, value |-> None]

\* FindStep that gives up the upper half and returns the last entry examined
FindStep_ReturnLast(gdt, k, lo, up) ==
    LET g == PyIndex(ATM1B_GRANULE_ITRFS, k) IN
    IF gdt < g.start
    THEN IF k > lo
         THEN [ret |-> FALSE, i |-> (k - lo) \div 2, lower |-> lo, upper |-> k,
               value |-> None]
         ELSE [ret |-> TRUE, i |-> k, lower |-> lo, upper |-> up, value |-> None]
    ELSE IF gdt <= g.end
    THEN [ret |-> TRUE, i |-> k, lower |-> lo, upper |-> up, value |-> g.itrf]
    ELSE IF k < up - 1
    THEN [ret |-> FALSE, i |-> (up + k) \div 2, lower |-> k, upper |-> up,
          value |-> None]
    ELSE [ret |-> TRUE, i |-> k, lower |-> lo, upper |-> up, value |-> g.itrf]

\* FindStep that moves to the neighbouring entry and keeps the bounds
FindStep_Neighbour(gdt, k, lo, up) ==
    LET g == PyIndex(ATM1B_GRANULE_ITRFS, k) IN
    IF gdt < g.start
    THEN IF k > lo
         THEN [ret |-> FALSE, i |-> k - 1, lower |-> lo, upper |-> up,
               value |-> None]
         ELSE [ret |-> TRUE, i |-> k, lower |-> lo, upper |-> up, value |-> None]
    ELSE IF gdt <= g.end
    THEN [ret |-> TRUE, i |-> k, lower |-> lo, upper |-> up, value |-> g.itrf]
    ELSE IF k < up - 1
    THEN [ret |-> FALSE, i |-> k + 1, lower |-> lo, upper |-> up,
          value |-> None]
    ELSE [ret |-> TRUE, i |-> k, lower |-> lo, upper |-> up, value |-> None]

\* FindStep that moves up to the upper bound itself
FindStep_ToUpper(gdt, k, lo, up) ==
    LET g == PyIndex(ATM1B_GRANULE_ITRFS, k) IN
    IF gdt < g.start
    THEN IF k > lo
         THEN [ret |-> FALSE, i |-> (k - lo) \div 2, lower |-> lo, upper |-> k,
               value |-> None]
         ELSE [ret |-> TRUE, i |-> k, lower |-> lo, upper |-> up, value |-> None]
    ELSE IF gdt <= g.end
    THEN [ret |-> TRUE, i |-> k, lower |-> lo, upper |-> up, value |-> g.itrf]
    ELSE IF k < up - 1
    THEN [ret |-> FALSE, i |-> up, lower |-> k, upper |-> up, value |-> None]
    ELSE [ret |-> TRUE, i |-> k, lower |-> lo, upper |-> up, value |-> None]

\* the arguments of the recursive call _find makes from (k, lo, up), or the
\* value it returns
FindStep(gdt, k, lo, up) ==
    LET g == PyIndex(ATM1B_GRANULE_ITRFS, k) IN
    IF gdt < g.start
    THEN IF k > lo
         THEN [ret |-> FALSE, i |-> (k - lo) \div 2, lower |-> lo, upper |-> k,
               value |-> None]
         ELSE [ret |-> TRUE, i |-> k, lower |-> lo, upper |-> up, value |-> None]
    ELSE IF gdt <= g.end
    THEN [ret |-> TRUE, i |-> k, lower |-> lo, upper |-> up, value |-> g.itrf]
    ELSE IF k < up - 1
    THEN [ret |-> FALSE, i |-> (up + k) \div 2, lower |-> k, upper |-> up,
          value |-> None]
    ELSE [ret |-> TRUE, i |-> k, lower |-> lo, upper |-> up, value |-> None]

\* lines 343-358: one call of _find
Find ==
    /\ pc = "find"
    /\ IF ~PyIndexOk(NRanges, i)
       THEN /\ outcome' = Raised("IndexError")
            /\ pc' = "done"
            /\ UNCHANGED <<i, lower, upper, found>>
       ELSE LET s == FindStep(date, i, lower, upper) IN
            /\ i' = s.i
            /\ lower' = s.lower
            /\ upper' = s.upper
            /\ found' = s.value
            /\ pc' = IF s.ret THEN "find_returned" ELSE "find"
            /\ UNCHANGED outcome
    /\ UNCHANGED <<date, header, itrfs, caller, log, xformVars, decodeVars, fileVars, apiVars,
                 bboxVars>>

\* lines 363-367: raise when _find returned None, else return its value; the
\* value goes to the caller (line 389), the exception through it
QfitItrfFromDate_Exit ==
    /\ pc = "find_returned"
    /\ IF found = None
       THEN outcome' = Raised("RuntimeError") /\ pc' = "done"
       ELSE IF caller = "direct"
       THEN outcome' = Returned(found) /\ pc' = "done"
       ELSE outcome' = outcome /\ pc' = "infer_resume"
    /\ UNCHANGED <<date, header, itrfs, caller, i, lower, upper, found, log, xformVars, decodeVars, fileVars, apiVars,
                 bboxVars>>

\* the converter is not running
XformIdle ==
    /\ data = <<>>
    /\ target_itrf = None
    /\ target_epoch = NoneOpt
    /\ plate = NoneOpt
    /\ calls = <<>>
    /\ lookups = <<>>
    /\ first = Pending

\* no iceflow.parquet
Absent == [kind |-> "absent", parts |-> <<>>]

\* no keyword arguments
NoKwargs == [given |-> FALSE, value |-> <<>>]

\* no BoundingBox
NoBox == [built |-> FALSE, fields |-> <<>>]

\* no index
NoIdx == [type |-> "none", int |-> 0, str |-> ""]

\* create_iceflow_parquet is not running
ApiIdle ==
    /\ parquet = Absent
    /\ overwrite = FALSE
    /\ todo = <<>>
    /\ ops = <<>>

\* no BoundingBox is being built
BboxIdle ==
    /\ bbox_args = <<>>
    /\ bbox_kwargs = NoKwargs
    /\ bbox = NoBox
    /\ bbox_idx = NoIdx

\* extract_itrf is not running
ExtractIdle ==
    /\ ext = ""
    /\ reference_frame = <<>>
    /\ filename = NoFilename
    /\ content = ""
    /\ picked = NoPicks

\* no qfit file is being read
DecodeIdle ==
    /\ word = <<0, 0, 0, 0>>
    /\ recs = <<>>
    /\ dtype = NoDtype

InitDate ==
    /\ pc = "qfit_itrf_from_date"
    /\ date \in QueryDates
    /\ header = <<>>
    /\ itrfs = {}
    /\ caller = "direct"
    /\ i = 0
    /\ lower = 0
    /\ upper = 0
    /\ found = None
    /\ outcome = Pending
    /\ log = <<>>
    /\ XformIdle
    /\ DecodeIdle
    /\ ExtractIdle
    /\ ApiIdle
    /\ BboxIdle

NextDate == QfitItrfFromDate_Enter \/ Find \/ QfitItrfFromDate_Exit

SpecDate == InitDate /\ [][NextDate]_vars

\* the call runs on: each step of the search is taken once it can be
SpecDateLive == SpecDate /\ WF_vars(NextDate)

---------------------------------------------------------------------------
(* _infer_qfit_itrf *)

\* lines 385-389: read the header, collect the matches, look the date up
InferQfitItrf_Enter ==
    /\ pc = "infer_qfit_itrf"
    /\ itrfs' = HeaderItrfs(header)
    /\ caller' = "infer"
    /\ pc' = "qfit_itrf_from_date"
    /\ UNCHANGED <<date, header, i, lower, upper, found, outcome, log, xformVars, decodeVars, fileVars, apiVars,
                 bboxVars>>

\* InferResult that lets the date table win when it disagrees with the header
InferResult_TableWins(tokens, itrf_for_date) ==
    IF Cardinality(tokens) = 1
    THEN LET itrf_from_qfit_header ==
                 _normalize_itrf_str(CHOOSE t \in tokens : TRUE) IN
         IF itrf_for_date # itrf_from_qfit_header
         THEN [value |-> itrf_for_date, log |-> <<"inconsistent">>]
         ELSE [value |-> itrf_from_qfit_header, log |-> <<>>]
    ELSE [value |-> itrf_for_date, log |-> <<"fallback">>]

\* InferResult that takes a header token whenever there is any
InferResult_AnyToken(tokens, itrf_for_date) ==
    IF Cardinality(tokens) >= 1
    THEN LET itrf_from_qfit_header ==
                 _normalize_itrf_str(CHOOSE t \in tokens : TRUE) IN
         IF itrf_for_date # itrf_from_qfit_header
         THEN [value |-> itrf_from_qfit_header, log |-> <<"inconsistent">>]
         ELSE [value |-> itrf_from_qfit_header, log |-> <<>>]
    ELSE [value |-> itrf_for_date, log |-> <<"fallback">>]

\* lines 391-409: the value returned and the warnings logged
InferResult(tokens, itrf_for_date) ==
    IF Cardinality(tokens) = 1
    THEN LET itrf_from_qfit_header ==
                 _normalize_itrf_str(CHOOSE t \in tokens : TRUE) IN
         IF itrf_for_date # itrf_from_qfit_header
         THEN [value |-> itrf_from_qfit_header, log |-> <<"inconsistent">>]
         ELSE [value |-> itrf_from_qfit_header, log |-> <<>>]
    ELSE [value |-> itrf_for_date, log |-> <<"fallback">>]

\* lines 391-409, after _qfit_itrf_from_date returned itrf_for_date
InferQfitItrf_Finish ==
    /\ pc = "infer_resume"
    /\ LET r == InferResult(itrfs, found) IN
       /\ outcome' = Returned(r.value)
       /\ log' = log \o r.log
    /\ pc' = "done"
    /\ UNCHANGED <<date, header, itrfs, caller, i, lower, upper, found, xformVars, decodeVars, fileVars, apiVars,
                 bboxVars>>

\* the words header texts are built from
HeaderWords == {
    <<"i", "t", "r", "f", "0", "5">>,
    <<"i", "t", "r", "f", "2", "0", "0", "0">>,
    <<"i", "t", "r", "f", "9", "7">>,
    <<"I", "T", "R", "F", "0", "8">>,
    <<"i", "t", "r", "f", "9">>,
    <<"1", "2">>,
    <<" ">> }

RECURSIVE Texts(_)
\* the texts of at most n words
Texts(n) ==
    IF n = 0 THEN {<<>>}
    ELSE LET shorter == Texts(n - 1) IN
         shorter \union {t \o w : t \in shorter, w \in HeaderWords}

\* most words in a header text
MaxHeaderWords == 2

\* every range's first and last day, the days next to them, and the far ends
InferDates ==
    UNION {{ATM1B_GRANULE_ITRFS[k].start - 1, ATM1B_GRANULE_ITRFS[k].start,
            ATM1B_GRANULE_ITRFS[k].end, ATM1B_GRANULE_ITRFS[k].end + 1}
           : k \in 1..NRanges}
      \union {FirstStart - PadDays, LastEnd + PadDays}

InitInfer ==
    /\ pc = "infer_qfit_itrf"
    /\ date \in InferDates
    /\ header \in Texts(MaxHeaderWords)
    /\ itrfs = {}
    /\ caller = "infer"
    /\ i = 0
    /\ lower = 0
    /\ upper = 0
    /\ found = None
    /\ outcome = Pending
    /\ log = <<>>
    /\ XformIdle
    /\ DecodeIdle
    /\ ExtractIdle
    /\ ApiIdle
    /\ BboxIdle

NextInfer ==
    \/ InferQfitItrf_Enter
    \/ QfitItrfFromDate_Enter
    \/ Find
    \/ QfitItrfFromDate_Exit
    \/ InferQfitItrf_Finish

SpecInfer == InitInfer /\ [][NextInfer]_vars

---------------------------------------------------------------------------
(* transform_itrf *)

\* characters in code point order, for the comparison of str values
CharOrder == <<" ", "0", "1", "2", "3", "4", "5", "6", "7", "8", "9">>
                 \o UpperCase \o LowerCase

Ord(c) == CHOOSE k \in 1..Len(CharOrder) : CharOrder[k] = c

\* a < b for two str values
StrLess(a, b) ==
    \E k \in 1..Len(b) :
        /\ \A j \in 1..(k - 1) : j <= Len(a) /\ a[j] = b[j]
        /\ k <= Len(a) => Ord(a[k]) < Ord(b[k])

RECURSIVE SortedKeys(_)
\* the str values of set S in increasing order
SortedKeys(S) ==
    IF S = {} THEN <<>>
    ELSE LET m == CHOOSE a \in S : \A b \in S \ {a} : StrLess(a, b) IN
         <<m>> \o SortedKeys(S \ {m})

\* DataFrame.groupby(by="ITRF"): the group keys, sorted
GroupKeys(d) == SortedKeys({d[k].ITRF : k \in 1..Len(d)})

\* the positions in d of the rows of one group, in their order in d
GroupRows(d, source_itrf) ==
    SelectSeq([k \in 1..Len(d) |-> k], LAMBDA k : d[k].ITRF = source_itrf)

\* check_itrf that asks for no digit
check_itrf_AnyDigits(str) ==
    /\ Len(str) >= 4
    /\ Len(str) <= 8
    /\ Slice(str, 1, 4) = <<"I", "T", "R", "F">>
    /\ \A k \in 5..Len(str) : str[k] \in Digits

\* the recognized pattern: "ITRF" followed by 2 to 4 digits
check_itrf(str) ==
    /\ Len(str) >= 6
    /\ Len(str) <= 8
    /\ Slice(str, 1, 4) = <<"I", "T", "R", "F">>
    /\ \A k \in 5..Len(str) : str[k] \in Digits

RECURSIVE SumSeq(_)
SumSeq(q) == IF q = <<>> THEN 0 ELSE Head(q) + SumSeq(Tail(q))

\* Series.mean(), as the fraction num/den
Mean(q) == [num |-> SumSeq(q), den |-> Len(q)]

Point(x, y) == [x |-> x, y |-> y]

\* the plate-boundary lookup: the plate that holds the point
plate_name(point) == IF point.x.num < 0 THEN "NOAM" ELSE "EURA"

\* one step of the PROJ pipeline string
Step(op, init, frame, pl, epoch) ==
    [op |-> op, init |-> init, frame |-> frame, plate |-> pl, t_epoch |-> epoch]

FixedStep(op) == Step(op, None, None, "", "")

\* lines 69-79: "+step +init={target_itrf}:{plate} +t_epoch={target_epoch} "
PlateModelStep(target, epoch, pl) ==
    IF Truthy(epoch)
    THEN <<Step("+init", target, None, pl.str, epoch.str)>>
    ELSE <<>>

\* lines 81-91: "+step +inv +init={target_itrf}:{source_itrf} "
ItrfTransformationStep(source_itrf, target) ==
    IF source_itrf # target
    THEN <<Step("+inv +init", target, source_itrf, "", "")>>
    ELSE <<>>

\* Pipeline with the plate model step ahead of the frame step
Pipeline_EpochFirst(source_itrf, target, epoch, pl) ==
    <<FixedStep("+proj=unitconvert +xy_in=deg +xy_out=rad"),
      FixedStep("+proj=latlon"),
      FixedStep("+proj=cart")>>
      \o PlateModelStep(target, epoch, pl)
      \o ItrfTransformationStep(source_itrf, target)
      \o <<FixedStep("+inv +proj=cart"),
           FixedStep("+proj=unitconvert +xy_in=rad +xy_out=deg")>>

\* lines 93-120: the pipeline, its steps in the order of the string
Pipeline(source_itrf, target, epoch, pl) ==
    <<FixedStep("+proj=unitconvert +xy_in=deg +xy_out=rad"),
      FixedStep("+proj=latlon"),
      FixedStep("+proj=cart")>>
      \o ItrfTransformationStep(source_itrf, target)
      \o PlateModelStep(target, epoch, pl)
      \o <<FixedStep("+inv +proj=cart"),
           FixedStep("+proj=unitconvert +xy_in=rad +xy_out=deg")>>

\* Transformer.transform: arrays of the same length and order come back; what
\* the engine does to each point is the choice sh (one value per position)
EngineTransform(xs, ys, zs, sh) ==
    [xx |-> [k \in 1..Len(xs) |-> xs[k] + sh[k]],
     yy |-> [k \in 1..Len(ys) |-> ys[k] + sh[k]],
     zz |-> [k \in 1..Len(zs) |-> zs[k] + sh[k]]]

\* PassThrough that skips every group when no epoch is asked for
PassThrough_NoEpoch(source_itrf, target, epoch) == epoch.none

\* PassThrough that never skips a group
PassThrough_Never(source_itrf, target, epoch) == FALSE

\* line 65: the group is appended as it is
PassThrough(source_itrf, target, epoch) == source_itrf = target /\ epoch.none

\* TransformedChunk that leaves the ITRF column as it was
TransformedChunk_NoRetag(chunk, out, target) ==
    [k \in 1..Len(chunk) |->
        [chunk[k] EXCEPT !.latitude = out.yy[k],
                         !.longitude = out.xx[k],
                         !.elevation = out.zz[k]]]

\* lines 130-141: lons, lats, elevs of the engine go to the copy of the chunk,
\* and the ITRF column is set to the target
TransformedChunk(chunk, out, target) ==
    [k \in 1..Len(chunk) |->
        [chunk[k] EXCEPT !.latitude = out.yy[k],
                         !.longitude = out.xx[k],
                         !.elevation = out.zz[k],
                         !.ITRF = target]]

Column(chunk, name) == [k \in 1..Len(chunk) |-> chunk[k][name]]

\* lines 64-142: the body of the loop for one group; acc holds the local
\* variable plate and what the loop has appended and called so far
LoopBody(d, source_itrf, target, epoch, acc, shifts) ==
    LET rows == GroupRows(d, source_itrf)
        chunk == [k \in 1..Len(rows) |-> d[rows[k]]]
        sh == [k \in 1..Len(rows) |-> shifts[rows[k]]]
    IN
    IF PassThrough(source_itrf, target, epoch)
    THEN [acc EXCEPT !.chunks = Append(@, chunk)]
    ELSE LET centroid == Point(Mean(Column(chunk, "longitude")),
                               Mean(Column(chunk, "latitude")))
             looked == Truthy(epoch) /\ ~Truthy(acc.plate)
             pl == IF looked THEN Some(plate_name(centroid)) ELSE acc.plate
             pipeline == Pipeline(source_itrf, target, epoch, pl)
             out == EngineTransform(Column(chunk, "longitude"),
                                    Column(chunk, "latitude"),
                                    Column(chunk, "elevation"), sh)
         IN [plate |-> pl,
             chunks |-> Append(acc.chunks, TransformedChunk(chunk, out, target)),
             calls |-> Append(acc.calls,
                              [source |-> source_itrf, pipeline |-> pipeline,
                               lons |-> Column(chunk, "longitude"),
                               lats |-> Column(chunk, "latitude"),
                               elevs |-> Column(chunk, "elevation"),
                               out |-> out]),
             lookups |-> IF looked
                         THEN Append(acc.lookups,
                                     [source |-> source_itrf, point |-> centroid])
                         ELSE acc.lookups]

RECURSIVE Loop(_, _, _, _, _, _, _)
\* lines 63-142: the loop over the groups, from the k-th key on
Loop(d, keys, k, target, epoch, acc, shifts) ==
    IF k > Len(keys) THEN acc
    ELSE Loop(d, keys, k + 1, target, epoch,
              LoopBody(d, keys[k], target, epoch, acc, shifts), shifts)

RECURSIVE Concat(_)
\* pd.concat
Concat(chunks) ==
    IF chunks = <<>> THEN <<>> ELSE Head(chunks) \o Concat(Tail(chunks))

\* TransformItrfCall that checks the target only after the loop
TransformItrfCall_CheckLast(d, target, epoch, pl, shifts) ==
    LET acc == Loop(d, GroupKeys(d), 1, target, epoch,
                    [plate |-> pl, chunks |-> <<>>, calls |-> <<>>,
                     lookups |-> <<>>], shifts)
    IN [outcome |-> IF ~check_itrf(target) \/ acc.chunks = <<>>
                    THEN Raised("ValueError")
                    ELSE Returned(Concat(acc.chunks)),
        calls |-> acc.calls,
        lookups |-> acc.lookups]

\* lines 55-146: the whole call.  pd.concat raises ValueError when there is
\* nothing to concatenate.
TransformItrfCall(d, target, epoch, pl, shifts) ==
    IF ~check_itrf(target)
    THEN [outcome |-> Raised("ValueError"), calls |-> <<>>, lookups |-> <<>>]
    ELSE LET acc == Loop(d, GroupKeys(d), 1, target, epoch,
                         [plate |-> pl, chunks |-> <<>>, calls |-> <<>>,
                          lookups |-> <<>>], shifts)
         IN [outcome |-> IF acc.chunks = <<>>
                         THEN Raised("ValueError")
                         ELSE Returned(Concat(acc.chunks)),
             calls |-> acc.calls,
             lookups |-> acc.lookups]

\* what the engine may do to one point
EngineShifts == {0, 1}

\* lines 41-146: one call of transform_itrf
TransformItrf ==
    /\ pc = "transform_itrf"
    /\ \E shifts \in [1..Len(data) -> EngineShifts] :
         LET r == TransformItrfCall(data, target_itrf, target_epoch, plate, shifts)
         IN /\ outcome' = r.outcome
            /\ calls' = r.calls
            /\ lookups' = r.lookups
    /\ pc' = "transformed"
    /\ UNCHANGED <<resolveVars, decodeVars, data, target_itrf, target_epoch, plate, first, fileVars, apiVars,
                 bboxVars>>

\* the caller hands the returned frame to transform_itrf once more, with the
\* same arguments
TransformAgain ==
    /\ pc = "transformed"
    /\ first = Pending
    /\ outcome.kind = "return"
    /\ first' = outcome
    /\ data' = outcome.value
    /\ outcome' = Pending
    /\ calls' = <<>>
    /\ lookups' = <<>>
    /\ pc' = "transform_itrf"
    /\ UNCHANGED <<resolveVars, decodeVars, target_itrf, target_epoch, plate, fileVars, apiVars,
                 bboxVars>>

\* source frames of the rows
Frames == {ITRF93, ITRF2005, ITRF2008}

Lons == {-20, 20}

Lats == {60}

Elevs == {100}

\* most rows in the input
MaxRows == 2

\* what a row holds besides its time
RowValues == [latitude : Lats, longitude : Lons, elevation : Elevs, ITRF : Frames]

\* a measurement of the row that is no coordinate: one value per row
Signal(k) == 100 * k

Row(k, v) ==
    [utc_datetime |-> k, latitude |-> v.latitude, longitude |-> v.longitude,
     elevation |-> v.elevation, ITRF |-> v.ITRF, rcv_sigstr |-> Signal(k)]

\* the frames of n rows, the k-th row stamped with time k
DataFrames(n) == {[k \in 1..n |-> Row(k, v[k])] : v \in [1..n -> RowValues]}

InitTransform ==
    /\ pc = "transform_itrf"
    /\ \E n \in 0..MaxRows : data \in DataFrames(n)
    /\ target_itrf \in Frames \union {<<"I", "T", "R", "F">>}
    /\ target_epoch \in {NoneOpt, Some(""), Some("2019.7")}
    /\ plate \in {NoneOpt, Some("ANTA")}
    /\ calls = <<>>
    /\ lookups = <<>>
    /\ first = Pending
    /\ outcome = Pending
    /\ date = 0
    /\ header = <<>>
    /\ itrfs = {}
    /\ caller = "none"
    /\ i = 0
    /\ lower = 0
    /\ upper = 0
    /\ found = None
    /\ log = <<>>
    /\ DecodeIdle
    /\ ExtractIdle
    /\ ApiIdle
    /\ BboxIdle

NextTransform == TransformItrf \/ TransformAgain

SpecTransform == InitTransform /\ [][NextTransform]_vars

---------------------------------------------------------------------------
(* _atm1b_qfit_dataframe: reading the records of a qfit file *)

\* four bytes as a signed 32-bit integer, most significant byte first
Int32(b1, b2, b3, b4) ==
    (IF b1 >= 128 THEN b1 - 256 ELSE b1) * 16777216 + b2 * 65536 + b3 * 256 + b4

\* np.fromfile(filepath, dtype=">i4", count=1)[0]
BigEndianWord(w) == Int32(w[1], w[2], w[3], w[4])

\* np.fromfile(filepath, dtype="<i4", count=1)[0]
LittleEndianWord(w) == Int32(w[4], w[3], w[2], w[1])

\* int(x / 4): the quotient, truncated towards zero
IntQuot4(x) == IF x >= 0 THEN x \div 4 ELSE 0 - ((0 - x) \div 4)

\* lines 87-101: the layouts _data_dtype knows
KnownFieldCounts == {10, 12, 14}

\* _file_dtype that keeps Endian.BIG after re-reading the word
FileDtype_AlwaysBig(w) ==
    LET be == BigEndianWord(w)
        le == LittleEndianWord(w)
        record_size == IF be >= 100 THEN le ELSE be
        field_count == IntQuot4(record_size)
    IN IF be >= 100 /\ le >= 100 THEN [exc |-> "ValueError", dtype |-> NoDtype]
       ELSE IF field_count \notin KnownFieldCounts
       THEN [exc |-> "KeyError", dtype |-> NoDtype]
       ELSE [exc |-> "",
             dtype |-> [endianness |-> "BIG", field_count |-> field_count]]

\* lines 104-119: the layout of the file, or the exception raised
FileDtype(w) ==
    LET be == BigEndianWord(w)
        le == LittleEndianWord(w)
        record_size == IF be >= 100 THEN le ELSE be
        endianness == IF be >= 100 THEN "LITTLE" ELSE "BIG"
        field_count == IntQuot4(record_size)
    IN IF be >= 100 /\ le >= 100 THEN [exc |-> "ValueError", dtype |-> NoDtype]
       ELSE IF field_count \notin KnownFieldCounts
       THEN [exc |-> "KeyError", dtype |-> NoDtype]
       ELSE [exc |-> "",
             dtype |-> [endianness |-> endianness, field_count |-> field_count]]

\* the fields every layout has (of them, the ones the code reads)
CommonFields == {"rel_time", "latitude", "longitude", "elevation", "gps_time"}

GpsFields == {"gps_pdop", "pulse_width"}

PassiveFields ==
    {"passive_signal", "passive_footprint_latitude",
     "passive_footprint_longitude", "passive_footprint_synthesized_elevation"}

\* lines 27-79: the fields a layout has between roll and gps_time
LayoutFields(field_count) ==
    IF field_count = 12 THEN GpsFields
    ELSE IF field_count = 14 THEN PassiveFields
    ELSE {}

\* one record of the file read under a layout; r.opt is the value of the
\* words the layout places between roll and gps_time
ReadRecord(r, dt) ==
    [f \in CommonFields \union LayoutFields(dt.field_count) |->
        IF f \in CommonFields THEN r[f] ELSE r.opt]

\* the first field of record 0 is the first word of the file
RecordZero(w, dt) ==
    ReadRecord([rel_time |-> IF dt.endianness = "BIG" THEN BigEndianWord(w)
                             ELSE LittleEndianWord(w),
                latitude |-> 1, longitude |-> 1, elevation |-> 1,
                gps_time |-> 1, opt |-> 1],
               dt)

\* np.fromfile(filepath, dtype=dtype): record 0 and the records after it
RawData(w, rs, dt) ==
    IF dt = NoDtype THEN <<>>
    ELSE <<RecordZero(w, dt)>> \o [k \in 1..Len(rs) |-> ReadRecord(rs[k], dt)]

RECURSIVE StripIdx(_, _)
\* lines 194-196: the index the loop of _strip_header stops at, from idx on;
\* -1 when data[idx] is past the end (IndexError)
StripIdx(raw, idx) ==
    IF idx >= Len(raw) THEN -1
    ELSE IF raw[idx + 1].rel_time < 0 THEN StripIdx(raw, idx + 1)
    ELSE idx

\* data[idx:] without the records whose first field is negative
From_NonNegative(raw, idx) ==
    SelectSeq(SubSeq(raw, idx + 1, Len(raw)), LAMBDA r : r.rel_time >= 0)

\* data[idx:]
From(raw, idx) == SubSeq(raw, idx + 1, Len(raw))

\* the mask of line 237 with "or" in place of "and"
KeepRecord_Either(r) == r.latitude # 0 \/ r.elevation # -9999

\* line 237: the mask of the records kept from a 14-field file
KeepRecord(r) == r.latitude # 0 /\ r.elevation # -9999

\* lines 227-245: the records of the data frame, or the exception raised
QfitDataframe(w, rs) ==
    LET fd == FileDtype(w)
        raw == RawData(w, rs, fd.dtype)
        idx == StripIdx(raw, 1)
    IN IF fd.exc # "" THEN [outcome |-> Raised(fd.exc), dtype |-> NoDtype]
       ELSE IF idx < 0 THEN [outcome |-> Raised("IndexError"), dtype |-> fd.dtype]
       ELSE IF fd.dtype.field_count = 14
       THEN [outcome |-> Returned(SelectSeq(From(raw, idx), KeepRecord)),
             dtype |-> fd.dtype]
       ELSE [outcome |-> Returned(From(raw, idx)), dtype |-> fd.dtype]

\* lines 223-245: one call of _atm1b_qfit_dataframe
AtmQfitDataframe ==
    /\ pc = "qfit_dataframe"
    /\ LET r == QfitDataframe(word, recs) IN
       /\ outcome' = r.outcome
       /\ dtype' = r.dtype
    /\ pc' = "decoded"
    /\ UNCHANGED <<resolveVars, xformVars, word, recs, fileVars, apiVars,
                 bboxVars>>

---------------------------------------------------------------------------
(* _atm1b_qfit_data: the conversions of the decoded records *)

\* the float x * 1e-6 of an integer x, held as its count of millionths
Millionths(x) == [e6 |-> x]

\* the float x * 1e-3 of an integer x, held as its count of thousandths
Thousandths(x) == [e3 |-> x]

\* _shift_lon that shifts only longitudes greater than 180.0
_shift_lon_Above(lon) ==
    IF lon.e6 > 180000000 THEN Millionths(lon.e6 - 360000000) ELSE lon

\* lines 156-160; lon is a count of millionths of a degree
_shift_lon(lon) ==
    IF lon.e6 >= 180000000 THEN Millionths(lon.e6 - 360000000) ELSE lon

\* gps_timemachine.gps.leap_seconds: the leap seconds between GPS time and
\* UTC in effect on day d
leap_seconds(d) ==
    IF d >= Date(2017, 1, 1) THEN 18
    ELSE IF d >= Date(2015, 7, 1) THEN 17
    ELSE IF d >= Date(2012, 7, 1) THEN 16
    ELSE IF d >= Date(2009, 1, 1) THEN 15
    ELSE IF d >= Date(2006, 1, 1) THEN 14
    ELSE IF d >= Date(1999, 1, 1) THEN 13
    ELSE IF d >= Date(1997, 7, 1) THEN 12
    ELSE IF d >= Date(1996, 1, 1) THEN 11
    ELSE IF d >= Date(1994, 7, 1) THEN 10
    ELSE IF d >= Date(1993, 7, 1) THEN 9
    ELSE 8  \* from 1992-07-01; no file is older

\* lines 209-212: hour, minute, second and millisecond of a packed time
TimeFieldsOf(gps_time) ==
    [hour |-> gps_time \div 10000000,
     minute |-> (gps_time % 10000000) \div 100000,
     second |-> (gps_time % 100000) \div 1000,
     millisecond |-> gps_time % 1000]

MsPerDay == 86400000

\* a timestamp that keeps the day whatever ms is
Timestamp_SameDay(day, ms) == [day |-> day, ms |-> ms % MsPerDay]

\* a timestamp: its day and the milliseconds since the start of that day;
\* pd.to_datetime adds the hour, minute, second and millisecond columns to
\* the date as time deltas, so ms may lie outside one day on either side
Timestamp(day, ms) ==
    [day |-> day + (IF ms >= 0 THEN ms \div MsPerDay
                    ELSE 0 - ((MsPerDay - 1 - ms) \div MsPerDay)),
     ms |-> ms % MsPerDay]

\* _utc_datetime with the leap seconds added instead of subtracted
UtcOf_LeapAdded(gps_time, file_date) ==
    LET t == TimeFieldsOf(gps_time) IN
    Timestamp(file_date,
              ((t.hour * 60 + t.minute) * 60 + t.second) * 1000 + t.millisecond
                + leap_seconds(file_date) * 1000)

\* lines 208-218: the timestamp of one record
UtcOf(gps_time, file_date) ==
    LET t == TimeFieldsOf(gps_time) IN
    Timestamp(file_date,
              ((t.hour * 60 + t.minute) * 60 + t.second) * 1000 + t.millisecond
                - leap_seconds(file_date) * 1000)

\* lines 201-220: the timestamps of the records
_utc_datetime(gps_times, file_date) ==
    [k \in 1..Len(gps_times) |-> UtcOf(gps_times[k], file_date)]

\* np.nan
NaN == [nan |-> TRUE, v |-> 0]

\* a number put into a float column
Num(x) == [nan |-> FALSE, v |-> x]

\* lines 170-184: the columns added for a frame of cols columns
MissingFields(cols) ==
    IF cols = 10 THEN GpsFields \union PassiveFields
    ELSE IF cols = 12 THEN PassiveFields
    ELSE IF cols = 14 THEN GpsFields
    ELSE {}

\* df[name] = missing, for every name of names, on one row
WithColumns(row, names, value) ==
    [f \in (DOMAIN row) \union names |-> IF f \in names THEN value ELSE row[f]]

\* _augment_with_optional_values that fills the added columns with 0
Augment_ZeroFill(rows, cols) ==
    IF cols \notin {10, 12, 14} THEN [exc |-> "ValueError", rows |-> <<>>]
    ELSE [exc |-> "",
          rows |-> [k \in 1..Len(rows) |->
                       WithColumns(rows[k], MissingFields(cols), Num(0))]]

\* lines 163-186: the rows with the added columns, or the exception
Augment(rows, cols) ==
    IF cols \notin {10, 12, 14} THEN [exc |-> "ValueError", rows |-> <<>>]
    ELSE [exc |-> "",
          rows |-> [k \in 1..Len(rows) |->
                       WithColumns(rows[k], MissingFields(cols), NaN)]]

\* lines 255-262: one row after the scalings, the shift and the timestamp
ConvertedRow(r, utc) ==
    [f \in (DOMAIN r) \union {"utc_datetime"} |->
        IF f = "latitude" THEN Millionths(r.latitude)
        ELSE IF f = "longitude" THEN _shift_lon(Millionths(r.longitude))
        ELSE IF f = "elevation" THEN Thousandths(r.elevation)
        ELSE IF f = "utc_datetime" THEN utc
        ELSE r[f]]

\* lines 252-265: the frame _atm1b_qfit_data returns for the frame df of
\* _atm1b_qfit_dataframe; the frame pd.DataFrame() of line 243 has no rows
\* and no columns, and df["latitude"] raises KeyError on it
QfitData(df, field_count, file_date) ==
    LET cols == IF df = <<>> THEN 0 ELSE field_count
        times == _utc_datetime([k \in 1..Len(df) |-> df[k].gps_time], file_date)
        aug == Augment([k \in 1..Len(df) |-> ConvertedRow(df[k], times[k])],
                       cols)
    IN IF cols = 0 THEN Raised("KeyError")
       ELSE IF aug.exc # "" THEN Raised(aug.exc)
       ELSE Returned(aug.rows)

\* lines 248-265: _atm1b_qfit_data, after _atm1b_qfit_dataframe returned
AtmQfitData ==
    /\ pc = "decoded"
    /\ outcome.kind = "return"
    /\ outcome' = QfitData(outcome.value, dtype.field_count, date)
    /\ pc' = "converted"
    /\ UNCHANGED <<resolveVars, xformVars, decodeVars, fileVars, apiVars,
                 bboxVars>>

\* first words of files: sizes 40, 48, 56 in both byte orders, sizes that are
\* no record size, and words that are too large in both byte orders
FirstWords == {
    <<0, 0, 0, 40>>, <<40, 0, 0, 0>>,
    <<0, 0, 0, 48>>, <<48, 0, 0, 0>>,
    <<0, 0, 0, 56>>, <<56, 0, 0, 0>>,
    <<0, 0, 0, 42>>, <<0, 0, 0, 44>>,
    <<255, 255, 255, 255>>, <<0, 0, 1, 0>> }

\* a record: its first field, the two fields the filter reads, the
\* longitude and the packed time the conversions read, and the value of the
\* words of the optional fields
Records ==
    [rel_time : {-1, 5}, latitude : {0, 70000000}, longitude : {250000000},
     elevation : {-9999, 1234}, gps_time : {123456789}, opt : {7}]

\* most records after record 0
MaxRecords == 3

InitDecode ==
    /\ pc = "qfit_dataframe"
    /\ word \in FirstWords
    /\ \E n \in 0..MaxRecords : recs \in [1..n -> Records]
    /\ dtype = NoDtype
    /\ outcome = Pending
    /\ date = Date(2006, 5, 22)
    /\ header = <<>>
    /\ itrfs = {}
    /\ caller = "none"
    /\ i = 0
    /\ lower = 0
    /\ upper = 0
    /\ found = None
    /\ log = <<>>
    /\ XformIdle
    /\ ExtractIdle
    /\ ApiIdle
    /\ BboxIdle

NextDecode == AtmQfitDataframe \/ AtmQfitData

SpecDecode == InitDecode /\ [][NextDecode]_vars

---------------------------------------------------------------------------
(* _ilatm1bv2_data: the rows of an HDF5 file *)

\* a float held as its count of tenths
Tenths(x) == [e1 |-> x]

\* lines 437-459: one row of the frame read from the datasets of the file;
\* the scaled variables are multiplied and cast, the others are copied.  The
\* products are between 0 and 2^31 - 1, where the casts to int32 and uint32
\* change nothing
H5Row(r) ==
    [rel_time |-> r.rel_time.e3,
     latitude |-> r.latitude,
     longitude |-> r.longitude,
     elevation |-> r.elevation,
     gps_pdop |-> r.gps_pdop.e1,
     pulse_width |-> r.pulse_width,
     gps_time |-> r.time_hhmmss.e3]

\* lines 433-459
_ilatm1bv2_dataframe(rows) == [k \in 1..Len(rows) |-> H5Row(rows[k])]

\* the number of variables of lines 437-450
H5Variables == 12

\* lines 469-470: one row after the shift and the timestamp
H5ConvertedRow(r, utc) ==
    [f \in (DOMAIN r) \union {"utc_datetime"} |->
        IF f = "longitude" THEN _shift_lon(r.longitude)
        ELSE IF f = "utc_datetime" THEN utc
        ELSE r[f]]

\* lines 462-473
Ilatm1bv2Data(rows, file_date) ==
    LET df == _ilatm1bv2_dataframe(rows)
        times == _utc_datetime([k \in 1..Len(df) |-> df[k].gps_time], file_date)
        aug == Augment([k \in 1..Len(df) |-> H5ConvertedRow(df[k], times[k])],
                       H5Variables)
    IN IF aug.exc # "" THEN Raised(aug.exc) ELSE Returned(aug.rows)

\* lines 462-473: _ilatm1bv2_data
AtmH5Data ==
    /\ pc = "h5_data"
    /\ outcome' = Ilatm1bv2Data(recs, date)
    /\ pc' = "h5_converted"
    /\ UNCHANGED <<resolveVars, xformVars, decodeVars, fileVars, apiVars,
                 bboxVars>>

\* stored longitudes: the ends of the 32-bit range, and the values around
\* -180, 0, 180, 360 and 540 degrees
StoredLongitudes ==
    {-2147483647 - 1, -180000000, 0, 179999999, 180000000, 359999999,
     360000000, 539999999, 540000000, 2147483647}

\* times of day <<HH, MM, SS, mmm>>: midnight, times within the leap seconds
\* of midnight, a time of the middle of the day, the last millisecond of the
\* day
ClockTimes ==
    {<<0, 0, 0, 0>>, <<0, 0, 5, 0>>, <<0, 0, 12, 999>>, <<0, 0, 13, 0>>,
     <<0, 0, 14, 999>>, <<0, 0, 15, 0>>, <<0, 0, 15, 999>>, <<0, 0, 16, 0>>,
     <<12, 34, 56, 789>>, <<23, 59, 59, 999>>}

\* the packed value HHMMSSmmm of a time of day
Pack(t) == t[1] * 10000000 + t[2] * 100000 + t[3] * 1000 + t[4]

\* packed times: the times of day, and values whose fields are not a time
\* of day (hour 24; second 99)
PackedTimes == {Pack(t) : t \in ClockTimes} \union {240000000, 99999}

BaseRecord ==
    [rel_time |-> 5, latitude |-> 70000000, longitude |-> 250000000,
     elevation |-> 1234, gps_time |-> 123456789, opt |-> 7]

\* records that differ from BaseRecord in one field
ConvertRecords ==
    {[BaseRecord EXCEPT !.longitude = x] : x \in StoredLongitudes}
      \union {[BaseRecord EXCEPT !.gps_time = t] : t \in PackedTimes}
      \union {[BaseRecord EXCEPT !.opt = 0], [BaseRecord EXCEPT !.latitude = 0]}

\* one first word per layout
ConvertWords == {<<0, 0, 0, 40>>, <<48, 0, 0, 0>>, <<0, 0, 0, 56>>}

\* file dates of qfit files, under different leap second counts
QfitDates == {Date(2004, 11, 27), Date(2011, 11, 4)}

H5BaseRow ==
    [rel_time |-> Thousandths(5), latitude |-> Millionths(70000000),
     longitude |-> Millionths(250000000), elevation |-> Thousandths(1234),
     gps_pdop |-> Tenths(21), pulse_width |-> 3,
     time_hhmmss |-> Thousandths(123456789)]

\* rows of an HDF5 file that differ from H5BaseRow in one variable
H5Rows ==
    {[H5BaseRow EXCEPT !.longitude = Millionths(x)] :
        x \in {0, 179999999, 180000000, 359999999, 360000000}}
      \union {[H5BaseRow EXCEPT !.time_hhmmss = Thousandths(t)] :
                 t \in {0, 15999, 16000, 235959999}}
      \union {[H5BaseRow EXCEPT !.gps_pdop = Tenths(0), !.pulse_width = 0]}

\* file dates of HDF5 files
H5Dates == {Date(2014, 4, 30), Date(2017, 5, 1)}

MaxConvertRecords == 2

InitConvert ==
    /\ \/ /\ pc = "qfit_dataframe"
          /\ word \in ConvertWords
          /\ \E n \in 0..MaxConvertRecords : recs \in [1..n -> ConvertRecords]
          /\ date \in QfitDates
       \/ /\ pc = "h5_data"
          /\ word = <<>>
          /\ \E n \in 0..MaxConvertRecords : recs \in [1..n -> H5Rows]
          /\ date \in H5Dates
    /\ dtype = NoDtype
    /\ outcome = Pending
    /\ header = <<>>
    /\ itrfs = {}
    /\ caller = "none"
    /\ i = 0
    /\ lower = 0
    /\ upper = 0
    /\ found = None
    /\ log = <<>>
    /\ XformIdle
    /\ ExtractIdle
    /\ ApiIdle
    /\ BboxIdle

NextConvert == AtmQfitDataframe \/ AtmQfitData \/ AtmH5Data

SpecConvert == InitConvert /\ [][NextConvert]_vars

---------------------------------------------------------------------------
(* extract_itrf *)

\* lines 412-418
_extract_itrf_from_h5_file(frame) == _normalize_itrf_str(frame)

\* lines 421-430: the dispatch on the suffix; the qfit branch returns what
\* _infer_qfit_itrf returns
ExtractItrf ==
    /\ pc = "extract_itrf"
    /\ IF ext = ".qi"
       THEN /\ pc' = "infer_qfit_itrf"
            /\ picked' = [picked EXCEPT !.itrf = "qfit"]
            /\ UNCHANGED outcome
       ELSE IF ext = ".h5"
       THEN /\ pc' = "done"
            /\ picked' = [picked EXCEPT !.itrf = "hdf5"]
            /\ outcome' = IF content = "hdf5"
                          THEN Returned(_extract_itrf_from_h5_file(reference_frame))
                          ELSE Raised("OSError")
       ELSE /\ pc' = "done"
            /\ outcome' = Raised("RuntimeError")
            /\ UNCHANGED picked
    /\ UNCHANGED <<resolveVars, xformVars, decodeVars, ext, reference_frame,
                   filename, content, apiVars, bboxVars>>

\* file dates: one in the range of each frame of the table, one in a gap of
\* the table
ExtractDates ==
    {Date(1995, 1, 1), Date(1997, 5, 1), Date(1997, 1, 1), Date(1999, 1, 1),
     Date(2001, 1, 1), Date(2002, 6, 1), Date(2008, 1, 1), Date(2012, 1, 1)}

\* values of ancillary_data/reference_frame
H5ReferenceFrames ==
    {<<"I", "T", "R", "F", "0", "8">>, <<"i", "t", "r", "f", "0", "5">>,
     <<"I", "T", "R", "F", "2", "0", "0", "0">>,
     <<"I", "T", "R", "F", "2", "0", "0", "8">>}

\* suffixes of file paths
Suffixes == {".qi", ".h5", ".txt"}

InitExtract ==
    /\ pc = "extract_itrf"
    /\ ext \in Suffixes
    /\ date \in ExtractDates
    /\ IF ext = ".qi" THEN header \in Texts(MaxHeaderWords) ELSE header = <<>>
    /\ IF ext = ".h5" THEN reference_frame \in H5ReferenceFrames
       ELSE reference_frame = <<>>
    /\ content = (IF ext = ".h5" THEN "hdf5" ELSE "qfit")
    /\ filename = NoFilename
    /\ picked = NoPicks
    /\ itrfs = {}
    /\ caller = "none"
    /\ i = 0
    /\ lower = 0
    /\ upper = 0
    /\ found = None
    /\ outcome = Pending
    /\ log = <<>>
    /\ XformIdle
    /\ DecodeIdle
    /\ ApiIdle
    /\ BboxIdle

NextExtract ==
    \/ ExtractItrf
    \/ InferQfitItrf_Enter
    \/ QfitItrfFromDate_Enter
    \/ Find
    \/ QfitItrfFromDate_Exit
    \/ InferQfitItrf_Finish

SpecExtract == InitExtract /\ [][NextExtract]_vars

---------------------------------------------------------------------------
(* check_itrf, called on its own *)

\* check_itrf(target_itrf)
CheckItrf ==
    /\ pc = "check_itrf"
    /\ outcome' = Returned(check_itrf(target_itrf))
    /\ pc' = "checked"
    /\ UNCHANGED <<resolveVars, xformVars, decodeVars, fileVars, apiVars,
                 bboxVars>>

\* what the strings handed to check_itrf begin with
ItrfPrefixes ==
    {<<"I", "T", "R", "F">>, <<"i", "t", "r", "f">>, <<"I", "T", "R">>, <<>>,
     <<"X", "I", "T", "R", "F">>}

\* longest tail of a string handed to check_itrf
MaxTailLen == 5

\* what the strings handed to check_itrf end with: digits and a letter
ItrfTails == UNION {[1..n -> {"8", "0", "x"}] : n \in 0..MaxTailLen}

NotAnItrfString ==
    <<"N", "o", "t", " ", "a", "n", " ", "I", "T", "R", "F", " ",
      "s", "t", "r", "i", "n", "g">>

CheckedStrings ==
    {p \o t : p \in ItrfPrefixes, t \in ItrfTails} \union {NotAnItrfString}

InitCheckItrf ==
    /\ pc = "check_itrf"
    /\ target_itrf \in CheckedStrings
    /\ data = <<>>
    /\ target_epoch = NoneOpt
    /\ plate = NoneOpt
    /\ calls = <<>>
    /\ lookups = <<>>
    /\ first = Pending
    /\ outcome = Pending
    /\ date = 0
    /\ header = <<>>
    /\ itrfs = {}
    /\ caller = "none"
    /\ i = 0
    /\ lower = 0
    /\ upper = 0
    /\ found = None
    /\ log = <<>>
    /\ DecodeIdle
    /\ ExtractIdle
    /\ ApiIdle
    /\ BboxIdle

NextCheckItrf == CheckItrf

SpecCheckItrf == InitCheckItrf /\ [][NextCheckItrf]_vars

---------------------------------------------------------------------------
(* create_iceflow_parquet *)

\* a part of a parquet dataset: written before the call or by it, and the
\* search result it holds
OldPart == [old |-> TRUE, data |-> "g0"]

NewPart(result) == [old |-> FALSE, data |-> result]

\* output_subdir.exists()
Exists(pq) == pq.kind # "absent"

\* lines 112-119, keeping an existing iceflow.parquet when overwrite is set
Existing_Kept(pq, ow) ==
    IF Exists(pq)
    THEN IF ow
         THEN [exc |-> "", parquet |-> pq, ops |-> <<>>]
         ELSE [exc |-> "RuntimeError", parquet |-> pq, ops |-> <<>>]
    ELSE [exc |-> "", parquet |-> pq, ops |-> <<>>]

\* lines 112-119: what happens to an existing iceflow.parquet; shutil.rmtree
\* removes a directory and raises NotADirectoryError on a file
Existing(pq, ow) ==
    IF Exists(pq)
    THEN IF ow
         THEN IF pq.kind = "dir"
              THEN [exc |-> "", parquet |-> Absent, ops |-> <<"rmtree">>]
              ELSE [exc |-> "NotADirectoryError", parquet |-> pq, ops |-> <<>>]
         ELSE [exc |-> "RuntimeError", parquet |-> pq, ops |-> <<>>]
    ELSE [exc |-> "", parquet |-> pq, ops |-> <<>>]

\* lines 111-119
CreateParquet_Enter ==
    /\ pc = "create_iceflow_parquet"
    /\ LET e == Existing(parquet, overwrite) IN
       /\ parquet' = e.parquet
       /\ ops' = ops \o e.ops
       /\ IF e.exc # ""
          THEN outcome' = Raised(e.exc) /\ pc' = "api_done"
          ELSE outcome' = outcome /\ pc' = "dataset"
    /\ UNCHANGED <<resolveVars, xformVars, decodeVars, fileVars, bboxVars,
                   overwrite, todo>>

\* lines 121-128 and 159: the next dataset is searched and downloaded, or
\* the path is returned when no dataset is left
CreateParquet_Search ==
    /\ pc = "dataset"
    /\ IF todo = <<>>
       THEN /\ outcome' = Returned("iceflow.parquet")
            /\ pc' = "api_done"
            /\ UNCHANGED ops
       ELSE /\ ops' = Append(ops, "search")
            /\ pc' = "result"
            /\ UNCHANGED outcome
    /\ UNCHANGED <<resolveVars, xformVars, decodeVars, fileVars, bboxVars,
                   parquet, overwrite, todo>>

\* lines 146-157: the parquet after the frame of one result is written
ToParquet(pq, result) ==
    IF Exists(pq)
    THEN [parquet |-> [pq EXCEPT !.parts = Append(pq.parts, NewPart(result))],
          op |-> "append"]
    ELSE [parquet |-> [kind |-> "dir", parts |-> <<NewPart(result)>>],
          op |-> "write"]

\* lines 130-157: one result of the current dataset is read, transformed and
\* written; a result that cannot be read or transformed ends the call
CreateParquet_Result ==
    /\ pc = "result"
    /\ IF Head(todo) = <<>>
       THEN /\ todo' = Tail(todo)
            /\ pc' = "dataset"
            /\ UNCHANGED <<parquet, ops, outcome>>
       ELSE LET result == Head(Head(todo)) IN
            IF result = "bad"
            THEN /\ outcome' = Raised("Exception")
                 /\ pc' = "api_done"
                 /\ UNCHANGED <<parquet, ops, todo>>
            ELSE LET w == ToParquet(parquet, result) IN
                 /\ parquet' = w.parquet
                 /\ ops' = Append(ops, w.op)
                 /\ todo' = <<Tail(Head(todo))>> \o Tail(todo)
                 /\ pc' = "result"
                 /\ UNCHANGED outcome
    /\ UNCHANGED <<resolveVars, xformVars, decodeVars, fileVars, bboxVars,
                   overwrite>>

\* what a search returns: results that can be read, and one that cannot
SearchResults == {"g1", "g2", "bad"}

MaxResults == 2

MaxDatasets == 2

ResultLists == UNION {[1..n -> SearchResults] : n \in 0..MaxResults}

\* iceflow.parquet before the call: absent, a dataset written earlier, or a
\* regular file of that name
ParquetsBefore ==
    {Absent, [kind |-> "dir", parts |-> <<OldPart>>],
     [kind |-> "file", parts |-> <<OldPart>>]}

InitApi ==
    /\ pc = "create_iceflow_parquet"
    /\ parquet \in ParquetsBefore
    /\ overwrite \in BOOLEAN
    /\ \E n \in 0..MaxDatasets : todo \in [1..n -> ResultLists]
    /\ ops = <<>>
    /\ outcome = Pending
    /\ date = 0
    /\ header = <<>>
    /\ itrfs = {}
    /\ caller = "none"
    /\ i = 0
    /\ lower = 0
    /\ upper = 0
    /\ found = None
    /\ log = <<>>
    /\ XformIdle
    /\ DecodeIdle
    /\ ExtractIdle
    /\ BboxIdle

NextApi == CreateParquet_Enter \/ CreateParquet_Search \/ CreateParquet_Result

SpecApi == InitApi /\ [][NextApi]_vars

---------------------------------------------------------------------------
(* BoundingBox *)

\* lines 233-236: the fields, in the order of their declaration
FieldNames ==
    <<"lower_left_lon", "lower_left_lat", "upper_right_lon", "upper_right_lat">>

\* a positional argument: a number, or a list or tuple of numbers
Scalar(x) == [is_seq |-> FALSE, v |-> x, items |-> <<>>]

ListArg(xs) == [is_seq |-> TRUE, v |-> 0, items |-> xs]

\* keyword arguments: a function from names to values
Kwargs(f) == [given |-> TRUE, value |-> f]

\* lines 241-246: the arguments after one list or tuple is unpacked
Unpacked(args) ==
    IF Len(args) = 1 /\ args[1].is_seq
    THEN [k \in 1..Len(args[1].items) |-> Scalar(args[1].items[k])]
    ELSE args

\* lines 255-260 with the two latitudes and longitudes paired the other way
KwargsFromArgs_Swapped(args) ==
    [n \in {FieldNames[k] : k \in 1..4} |->
        IF n = "lower_left_lon" THEN args[2]
        ELSE IF n = "lower_left_lat" THEN args[1]
        ELSE IF n = "upper_right_lon" THEN args[4]
        ELSE args[3]]

\* lines 255-260: kwargs built from four positional arguments
KwargsFromArgs(args) ==
    [n \in {FieldNames[k] : k \in 1..4} |->
        IF n = "lower_left_lon" THEN args[1]
        ELSE IF n = "lower_left_lat" THEN args[2]
        ELSE IF n = "upper_right_lon" THEN args[3]
        ELSE args[4]]

\* line 263: pydantic builds the model from kwargs; every field is required
\* and has to be a number
ModelInit(kw) ==
    IF /\ \A k \in 1..4 : FieldNames[k] \in DOMAIN kw
       /\ \A n \in DOMAIN kw : ~kw[n].is_seq
    THEN [exc |-> "",
          box |-> [built |-> TRUE,
                   fields |-> [n \in {FieldNames[k] : k \in 1..4} |-> kw[n].v]]]
    ELSE [exc |-> "ValidationError", box |-> NoBox]

\* lines 238-263: BoundingBox.__init__
BoundingBoxInit(args, kwargs) ==
    IF args # <<>>
    THEN LET a == Unpacked(args) IN
         IF Len(a) # 4 THEN [exc |-> "ValueError", box |-> NoBox]
         ELSE ModelInit(KwargsFromArgs(a))
    ELSE ModelInit(IF kwargs.given THEN kwargs.value ELSE <<>>)

\* lines 265-274: BoundingBox.__iter__, as a tuple
BoundingBoxIter(box) ==
    <<box.fields.lower_left_lon, box.fields.lower_left_lat,
      box.fields.upper_right_lon, box.fields.upper_right_lat>>

\* list(...)[n] for a Python index n
ListGetitem(xs, n) ==
    IF n >= 0 /\ n < Len(xs) THEN [exc |-> "", value |-> xs[n + 1]]
    ELSE IF n < 0 /\ n >= 0 - Len(xs)
    THEN [exc |-> "", value |-> xs[Len(xs) + n + 1]]
    ELSE [exc |-> "IndexError", value |-> 0]

\* lines 276-285: BoundingBox.__getitem__
BoundingBoxGetitem(box, ix) ==
    IF ix.type = "int" THEN ListGetitem(BoundingBoxIter(box), ix.int)
    ELSE IF ix.type = "str"
    THEN IF ix.str \in DOMAIN box.fields
         THEN [exc |-> "", value |-> box.fields[ix.str]]
         ELSE [exc |-> "AttributeError", value |-> 0]
    ELSE [exc |-> "TypeError", value |-> 0]

\* BoundingBox(*bbox_args, **bbox_kwargs)
BoundingBox_New ==
    /\ pc = "bbox_new"
    /\ LET r == BoundingBoxInit(bbox_args, bbox_kwargs) IN
       /\ bbox' = r.box
       /\ outcome' = IF r.exc # "" THEN Raised(r.exc) ELSE outcome
       /\ pc' = IF r.exc # "" THEN "bbox_failed" ELSE "bbox_built"
    /\ UNCHANGED <<resolveVars, xformVars, decodeVars, fileVars, apiVars,
                   bbox_args, bbox_kwargs, bbox_idx>>

IntIdx(n) == [type |-> "int", int |-> n, str |-> ""]

StrIdx(s) == [type |-> "str", int |-> 0, str |-> s]

\* indexes handed to __getitem__: positions in and out of range, field
\* names, another name, and a value that is neither int nor str
Indexes ==
    {IntIdx(n) : n \in -5..4}
      \union {StrIdx(FieldNames[k]) : k \in 1..4}
      \union {StrIdx("centre"), [type |-> "float", int |-> 0, str |-> ""]}

\* bbox[bbox_idx]
BoundingBox_Getitem ==
    /\ pc = "bbox_built"
    /\ \E ix \in Indexes :
          /\ bbox_idx' = ix
          /\ LET r == BoundingBoxGetitem(bbox, ix) IN
             outcome' = IF r.exc # "" THEN Raised(r.exc) ELSE Returned(r.value)
    /\ pc' = "bbox_read"
    /\ UNCHANGED <<resolveVars, xformVars, decodeVars, fileVars, apiVars,
                   bbox_args, bbox_kwargs, bbox>>

\* tuple(bbox)
BoundingBox_Iter ==
    /\ pc = "bbox_built"
    /\ outcome' = Returned(BoundingBoxIter(bbox))
    /\ pc' = "bbox_iterated"
    /\ UNCHANGED <<resolveVars, xformVars, decodeVars, fileVars, apiVars,
                   bboxVars>>

\* coordinate values
Coords == {-103, -75}

\* most positional arguments, and most items of a list argument
MaxArgs == 5

CoordTuples(n) == [1..n -> Coords]

\* keyword arguments: all four fields, or all but one
KwargsGiven ==
    {Kwargs([n \in {FieldNames[k] : k \in 1..4} |-> Scalar(t[CHOOSE k \in 1..4 : FieldNames[k] = n])]) :
        t \in CoordTuples(4)}
      \union {Kwargs([n \in {FieldNames[k] : k \in 1..3} |-> Scalar(-75)])}

\* positional arguments: numbers, one list, a list among numbers, two lists
ArgsGiven ==
    UNION {{[k \in 1..n |-> Scalar(t[k])] : t \in CoordTuples(n)} : n \in 1..MaxArgs}
      \union UNION {{<<ListArg(t)>> : t \in CoordTuples(n)} : n \in 0..MaxArgs}
      \union {<<Scalar(-103), ListArg(<<-75>>), Scalar(-103), Scalar(-75)>>,
              <<ListArg(<<-103, -75>>), ListArg(<<-103, -75>>)>>}

InitBbox ==
    /\ pc = "bbox_new"
    /\ \/ bbox_args = <<>> /\ bbox_kwargs \in KwargsGiven \union {NoKwargs}
       \/ bbox_args \in ArgsGiven /\ bbox_kwargs = NoKwargs
       \/ /\ bbox_args = <<ListArg(<<-103, -75, -103, -75>>)>>
          /\ bbox_kwargs \in KwargsGiven
    /\ bbox = NoBox
    /\ bbox_idx = NoIdx
    /\ outcome = Pending
    /\ date = 0
    /\ header = <<>>
    /\ itrfs = {}
    /\ caller = "none"
    /\ i = 0
    /\ lower = 0
    /\ upper = 0
    /\ found = None
    /\ log = <<>>
    /\ XformIdle
    /\ DecodeIdle
    /\ ExtractIdle
    /\ ApiIdle

NextBbox == BoundingBox_New \/ BoundingBox_Getitem \/ BoundingBox_Iter

SpecBbox == InitBbox /\ [][NextBbox]_vars

---------------------------------------------------------------------------
(* transform_itrf of the package iceflow (src/iceflow/itrf/converter.py) *)

\* line 56: the group is appended as it is
IceflowPassThrough(source_itrf, target) == source_itrf = target

\* lines 60-64: "+step +inv +init={target_itrf}:{plate} +t_epoch={target_epoch} "
IceflowPlateModelStep(target, epoch, pl) ==
    IF Truthy(pl) /\ Truthy(epoch)
    THEN <<Step("+inv +init", target, None, pl.str, epoch.str)>>
    ELSE <<>>

\* lines 66-75: the pipeline, its steps in the order of the string
IceflowPipeline(source_itrf, target, epoch, pl) ==
    <<FixedStep("+proj=unitconvert +xy_in=deg +xy_out=rad"),
      FixedStep("+proj=latlon"),
      FixedStep("+proj=cart"),
      Step("+inv +init", target, source_itrf, "", "")>>
      \o IceflowPlateModelStep(target, epoch, pl)
      \o <<FixedStep("+inv +proj=cart"),
           FixedStep("+proj=unitconvert +xy_in=rad +xy_out=deg")>>

\* lines 85-96: the engine's outputs are unpacked as lats, lons, elevs and
\* go to the copy of the chunk
IceflowTransformedChunk(chunk, out) ==
    LET lats == out.xx
        lons == out.yy
        elevs == out.zz
    IN [k \in 1..Len(chunk) |->
           [chunk[k] EXCEPT !.latitude = lats[k],
                            !.longitude = lons[k],
                            !.elevation = elevs[k]]]

\* lines 55-96: the body of the loop for one group
IceflowLoopBody(d, source_itrf, target, epoch, pl, acc, shifts) ==
    LET rows == GroupRows(d, source_itrf)
        chunk == [k \in 1..Len(rows) |-> d[rows[k]]]
        sh == [k \in 1..Len(rows) |-> shifts[rows[k]]]
    IN
    IF IceflowPassThrough(source_itrf, target)
    THEN [acc EXCEPT !.chunks = Append(@, chunk)]
    ELSE LET out == EngineTransform(Column(chunk, "longitude"),
                                    Column(chunk, "latitude"),
                                    Column(chunk, "elevation"), sh)
         IN [chunks |-> Append(acc.chunks, IceflowTransformedChunk(chunk, out)),
             calls |-> Append(acc.calls,
                              [source |-> source_itrf,
                               pipeline |-> IceflowPipeline(source_itrf, target,
                                                            epoch, pl),
                               lons |-> Column(chunk, "longitude"),
                               lats |-> Column(chunk, "latitude"),
                               elevs |-> Column(chunk, "elevation"),
                               out |-> out])]

RECURSIVE IceflowLoop(_, _, _, _, _, _, _, _)
\* lines 54-96: the loop over the groups, from the k-th key on
IceflowLoop(d, keys, k, target, epoch, pl, acc, shifts) ==
    IF k > Len(keys) THEN acc
    ELSE IceflowLoop(d, keys, k + 1, target, epoch, pl,
                     IceflowLoopBody(d, keys[k], target, epoch, pl, acc, shifts),
                     shifts)

\* lines 53-101: the whole call
IceflowTransformItrfCall(d, target, pl, epoch, shifts) ==
    LET acc == IceflowLoop(d, GroupKeys(d), 1, target, epoch, pl,
                           [chunks |-> <<>>, calls |-> <<>>], shifts)
    IN [outcome |-> IF acc.chunks = <<>>
                    THEN Raised("ValueError")
                    ELSE Returned(Concat(acc.chunks)),
        calls |-> acc.calls]

\* lines 32-101: one call of iceflow.itrf.converter.transform_itrf
IceflowTransformItrf ==
    /\ pc = "iceflow.transform_itrf"
    /\ \E shifts \in [1..Len(data) -> EngineShifts] :
         LET r == IceflowTransformItrfCall(data, target_itrf, plate,
                                           target_epoch, shifts)
         IN /\ outcome' = r.outcome
            /\ calls' = r.calls
    /\ pc' = "iceflow.transformed"
    /\ UNCHANGED <<resolveVars, decodeVars, data, target_itrf, target_epoch,
                   plate, lookups, first, fileVars, apiVars, bboxVars>>

InitIceflowTransform ==
    /\ pc = "iceflow.transform_itrf"
    /\ \E n \in 0..MaxRows : data \in DataFrames(n)
    /\ target_itrf \in Frames \union {<<"I", "T", "R", "F">>}
    /\ target_epoch \in {NoneOpt, Some(""), Some("2019.7")}
    /\ plate \in {NoneOpt, Some("ANTA")}
    /\ calls = <<>>
    /\ lookups = <<>>
    /\ first = Pending
    /\ outcome = Pending
    /\ date = 0
    /\ header = <<>>
    /\ itrfs = {}
    /\ caller = "none"
    /\ i = 0
    /\ lower = 0
    /\ upper = 0
    /\ found = None
    /\ log = <<>>
    /\ DecodeIdle
    /\ ExtractIdle
    /\ ApiIdle
    /\ BboxIdle

\* transform_itrf of either package
InitTransformCopies == InitTransform \/ InitIceflowTransform

NextTransformCopies == NextTransform \/ IceflowTransformItrf

SpecTransformCopies == InitTransformCopies /\ [][NextTransformCopies]_vars

---------------------------------------------------------------------------
(* atm1b_data: the decoder and the frame resolution of one file *)

\* line 496: re.search(r".*_(\d{4})\d{4}.*", filename); names of the model are
\* PRODUCT_yyyymmdd_hhmmss.* or hold no date at all
NameMatch(fn) == fn.product # ""

\* lines 145-153 and 122-142: the date function called for the year; the
\* names of the model satisfy _ilatm1b_date, _blatm1bv1_date wants BLATM1B_
FileDateFound(fn) == fn.y >= 2009 \/ fn.product = "BLATM1B"

\* lines 503-511: _ilatm1bv2_data for names of 2013 and later, _atm1b_qfit_data
\* for the others
DecoderFor(fn) == IF fn.y >= 2013 THEN "hdf5" ELSE "qfit"

\* what the decoder raises on bytes of the other container: h5py.File on a
\* file without the HDF5 signature, _data_dtype on the field count that the
\* HDF5 signature read as a record size gives
DecodeError(decoder) == IF decoder = "hdf5" THEN "OSError" ELSE "KeyError"

\* lines 476-511: the name is parsed, the records are decoded
Atm1bData_Enter ==
    /\ pc = "atm1b_data"
    /\ LET decoder == DecoderFor(filename) IN
       IF ~NameMatch(filename) \/ ~FileDateFound(filename)
       THEN /\ outcome' = Raised("RuntimeError")
            /\ pc' = "atm1b_done"
            /\ UNCHANGED <<date, picked>>
       ELSE IF content # decoder
       THEN /\ outcome' = Raised(DecodeError(decoder))
            /\ pc' = "atm1b_done"
            /\ picked' = [picked EXCEPT !.decode = decoder]
            /\ UNCHANGED date
       ELSE /\ date' = Date(filename.y, filename.m, filename.d)
            /\ picked' = [picked EXCEPT !.decode = decoder]
            /\ pc' = "extract_itrf"
            /\ UNCHANGED outcome
    /\ UNCHANGED <<header, itrfs, caller, i, lower, upper, found, log,
                   xformVars, decodeVars, ext, reference_frame, filename,
                   content, apiVars, bboxVars>>

\* lines 513-521: extract_itrf has ended; the frame becomes the ITRF column,
\* which the schema wants to be an ITRF string
Atm1bData_Finish ==
    /\ pc = "done"
    /\ picked.decode # ""
    /\ outcome' = IF outcome.kind = "return" /\ ~check_itrf(outcome.value)
                  THEN Raised("SchemaError")
                  ELSE outcome
    /\ pc' = "atm1b_done"
    /\ UNCHANGED <<resolveVars, xformVars, decodeVars, fileVars, apiVars,
                   bboxVars>>

\* days in file names: one of a BLATM1B campaign, one of ILATM1B v1, one of
\* ILATM1B v2, one after the last range of the table
FileDays == {<<2006, 5, 22>>, <<2011, 11, 4>>, <<2014, 4, 30>>, <<2019, 4, 30>>}

Products == {"ILATM1B", "BLATM1B"}

Filenames ==
    {[product |-> p, y |-> t[1], m |-> t[2], d |-> t[3]] :
        p \in Products, t \in FileDays}
    \union {NoFilename}

Contents == {"qfit", "hdf5"}

\* header texts of the files: empty, or one word
FileHeaders == {<<>>} \union HeaderWords

\* the file on disk is any pairing of a name, a suffix and a content; the bytes
\* of an HDF5 file read as qfit header records are some text
InitAtm1b ==
    /\ pc = "atm1b_data"
    /\ filename \in Filenames
    /\ ext \in Suffixes
    /\ content \in Contents
    /\ header \in FileHeaders
    /\ IF content = "hdf5" THEN reference_frame \in H5ReferenceFrames
       ELSE reference_frame = <<>>
    /\ picked = NoPicks
    /\ date = 0
    /\ itrfs = {}
    /\ caller = "none"
    /\ i = 0
    /\ lower = 0
    /\ upper = 0
    /\ found = None
    /\ outcome = Pending
    /\ log = <<>>
    /\ XformIdle
    /\ DecodeIdle
    /\ ApiIdle
    /\ BboxIdle

NextAtm1b ==
    \/ Atm1bData_Enter
    \/ ExtractItrf
    \/ InferQfitItrf_Enter
    \/ QfitItrfFromDate_Enter
    \/ Find
    \/ QfitItrfFromDate_Exit
    \/ InferQfitItrf_Finish
    \/ Atm1bData_Finish

SpecAtm1b == InitAtm1b /\ [][NextAtm1b]_vars

---------------------------------------------------------------------------
(* The program: any of the entry points, called once *)

Init == InitDate \/ InitInfer \/ InitTransform \/ InitDecode \/ InitConvert
          \/ InitExtract \/ InitCheckItrf \/ InitApi
          \/ InitBbox
 \/ InitIceflowTransform \/ InitAtm1b

Next ==
    \/ QfitItrfFromDate_Enter
    \/ Find
    \/ QfitItrfFromDate_Exit
    \/ InferQfitItrf_Enter
    \/ InferQfitItrf_Finish
    \/ TransformItrf
    \/ TransformAgain
    \/ AtmQfitDataframe
    \/ AtmQfitData
    \/ AtmH5Data
    \/ ExtractItrf
    \/ CheckItrf
    \/ CreateParquet_Enter
    \/ CreateParquet_Search
    \/ CreateParquet_Result
    \/ BoundingBox_New
    \/ BoundingBox_Getitem
    \/ BoundingBox_Iter
    \/ IceflowTransformItrf
    \/ Atm1bData_Enter
    \/ Atm1bData_Finish

Spec == Init /\ [][Next]_vars

---------------------------------------------------------------------------
(* Properties of _qfit_itrf_from_date *)

InRange(d, g) == g.start <= d /\ d <= g.end

Covered(d) == \E k \in 1..NRanges : InRange(d, ATM1B_GRANULE_ITRFS[k])

DirectDone == pc = "done" /\ caller = "direct"

\* C1: for every date d and every table entry with start <= d <= end,
\* _qfit_itrf_from_date(d) returns that entry's itrf (both end dates of every
\* range and the one-day ITRF97 entries included).
C1_CoveredDateReturnsEntryItrf ==
    DirectDone =>
        \A k \in 1..NRanges :
            InRange(date, ATM1B_GRANULE_ITRFS[k])
                => outcome = Returned(ATM1B_GRANULE_ITRFS[k].itrf)

\* a one-day ITRF97 entry, looked up on its only day
C1_Witness ==
    /\ DirectDone
    /\ date = Date(2002, 12, 14)
    /\ outcome = Returned(ITRF97)

\* C2: for every date in no range of the table (before the first, after the
\* last, or in a gap), _qfit_itrf_from_date raises RuntimeError and returns no
\* frame.
C2_UncoveredDateRaises ==
    DirectDone => (~Covered(date) => outcome = Raised("RuntimeError"))

\* a date in the gap between the ITRF96 and the ITRF97 ranges
C2_Witness ==
    /\ DirectDone
    /\ date = Date(1999, 5, 26)
    /\ ~Covered(date)
    /\ outcome = Raised("RuntimeError")

---------------------------------------------------------------------------
(* Properties of _infer_qfit_itrf *)

InferDone == pc = "done" /\ caller = "infer"

\* the frame the table gives for a covered date
TableItrf(d) ==
    ATM1B_GRANULE_ITRFS[CHOOSE k \in 1..NRanges :
                            InRange(d, ATM1B_GRANULE_ITRFS[k])].itrf

OneHeaderToken == Cardinality(HeaderItrfs(header)) = 1

HeaderToken == _normalize_itrf_str(CHOOSE t \in HeaderItrfs(header) : TRUE)

\* C5: when the header yields exactly one distinct ITRF token and the table
\* gives a different frame for the file date, _infer_qfit_itrf does not fail:
\* it logs a warning and returns the normalized header token.
C5_HeaderWinsOverTable ==
    (InferDone /\ OneHeaderToken /\ Covered(date) /\ TableItrf(date) # HeaderToken)
        => /\ outcome = Returned(HeaderToken)
           /\ log = <<"inconsistent">>

\* header "itrf05" on a day of the ITRF93 range
C5_Witness ==
    /\ InferDone
    /\ header = <<"i", "t", "r", "f", "0", "5">>
    /\ date = Date(1993, 6, 23)
    /\ TableItrf(date) = ITRF93
    /\ outcome = Returned(ITRF2005)
    /\ log = <<"inconsistent">>

\* C6: resolution for a file whose header can be read fails only when the
\* header yields no single ITRF token and the file date lies outside every
\* range; whenever the header yields exactly one distinct token, resolution
\* succeeds for every file date.
C6_FailsOnlyWithoutTokenAndRange ==
    InferDone =>
        /\ (outcome.kind = "raise" => (~OneHeaderToken /\ ~Covered(date)))
        /\ (OneHeaderToken => outcome.kind = "return")

---------------------------------------------------------------------------
(* Properties of transform_itrf *)

TransformReturned == pc = "transformed" /\ outcome.kind = "return"

\* C3: after transform_itrf returns for a valid target_itrf, every row of the
\* result has ITRF equal to target_itrf, for any mix of source frames and with
\* or without a target_epoch.
C3_EveryRowTaggedWithTarget ==
    TransformReturned =>
        \A k \in 1..Len(outcome.value) : outcome.value[k].ITRF = target_itrf

\* two rows of two source frames, neither the target, no epoch
C3_Witness ==
    /\ TransformReturned
    /\ first = Pending
    /\ Len(data) = 2
    /\ data[1].ITRF = ITRF93
    /\ data[2].ITRF = ITRF2005
    /\ target_itrf = ITRF2008
    /\ target_epoch = NoneOpt
    /\ Len(outcome.value) = 2
    /\ \A k \in 1..2 : outcome.value[k].ITRF = ITRF2008

\* the plate named in the plate-model step of an engine call
PlateOfCall(c) ==
    LET steps == SelectSeq(c.pipeline, LAMBDA st : st.op = "+init") IN steps[1].plate

\* the centroid of the group a call transformed
CentroidOfCall(c) == Point(Mean(c.lons), Mean(c.lats))

\* C4: with a target_epoch and without a plate, the plate used for every
\* transformed group is the plate looked up at that group's own centroid; a
\* plate inferred for one group is never reused for a later group with a
\* different centroid.
C4_PlateFromOwnCentroid ==
    (pc = "transformed" /\ Truthy(target_epoch) /\ ~Truthy(plate)) =>
        \A k \in 1..Len(calls) :
            PlateOfCall(calls[k]) = plate_name(CentroidOfCall(calls[k]))

\* C7: with a target_itrf that is not a recognized ITRF string transform_itrf
\* raises ValueError before any group is processed: no plate lookup, no call
\* of the geodesy engine, no output.
C7_InvalidTargetRejectedFirst ==
    (pc = "transformed" /\ ~check_itrf(target_itrf)) =>
        /\ outcome = Raised("ValueError")
        /\ calls = <<>>
        /\ lookups = <<>>

\* target "ITRF", rows present, an epoch asked for and no plate given
C7_Witness ==
    /\ pc = "transformed"
    /\ target_itrf = <<"I", "T", "R", "F">>
    /\ Len(data) = 2
    /\ Truthy(target_epoch)
    /\ plate = NoneOpt
    /\ outcome = Raised("ValueError")

\* the rows of the result that carry the time of row r
SameTime(r) == SelectSeq(outcome.value, LAMBDA o : o.utc_datetime = r.utc_datetime)

\* C8: with no target_epoch, every group whose source frame is target_itrf is
\* passed through without a call of the geodesy engine: each of its rows keeps
\* its input latitude, longitude, elevation and ITRF, also when other groups
\* of the same input are transformed.
C8_TargetGroupPassedThrough ==
    (TransformReturned /\ target_epoch.none) =>
        /\ \A k \in 1..Len(calls) : calls[k].source # target_itrf
        /\ \A k \in 1..Len(data) :
               data[k].ITRF = target_itrf => SameTime(data[k]) = <<data[k]>>

\* one row already in the target frame, one row of another frame that the
\* engine moved
C8_Witness ==
    /\ TransformReturned
    /\ first = Pending
    /\ target_epoch.none
    /\ Len(data) = 2
    /\ data[1].ITRF = target_itrf
    /\ data[2].ITRF # target_itrf
    /\ Len(calls) = 1
    /\ SameTime(data[1]) = <<data[1]>>
    /\ SameTime(data[2])[1].longitude # data[2].longitude

\* C9: with no target_epoch, transform_itrf(transform_itrf(data, t), t) equals
\* transform_itrf(data, t): the second application calls the geodesy engine
\* for no group and changes no row.
C9_SecondApplicationIsNoOp ==
    (pc = "transformed" /\ first # Pending /\ target_epoch.none) =>
        /\ outcome = first
        /\ calls = <<>>

\* second application done, the first one had transformed two groups
C9_Witness ==
    /\ pc = "transformed"
    /\ first # Pending
    /\ target_epoch.none
    /\ Len(GroupKeys(first.value)) = 1
    /\ Len(first.value) = 2
    /\ first.value[1].longitude = 21
    /\ first.value[2].longitude = -19
    /\ outcome = first

---------------------------------------------------------------------------
(* Properties of _atm1b_qfit_dataframe *)

Decoded == pc = "decoded" /\ outcome.kind = "return"

\* the records of the file under the selected layout
FileRecords == RawData(word, recs, dtype)

\* the header records: record 0 and the records after it up to the first
\* one whose first field is not negative
IsHeaderCount(h) ==
    /\ h >= 1
    /\ h < Len(FileRecords)
    /\ FileRecords[h + 1].rel_time >= 0
    /\ \A k \in 2..h : FileRecords[k].rel_time < 0

HeaderCount == CHOOSE h \in 1..Len(FileRecords) : IsHeaderCount(h)

Invalid(r) == r.latitude = 0 \/ r.elevation = -9999

\* the positions after the header that hold an invalid record
InvalidPositions ==
    {k \in (HeaderCount + 1)..Len(FileRecords) : Invalid(FileRecords[k])}

\* C10: decoding a 14-field file returns exactly the records that follow the
\* header and have latitude # 0 and elevation # -9999, in file order: no
\* returned record has latitude 0 or elevation -9999, and the count is the
\* file's record count minus header records minus invalid records.  For 10-
\* and 12-field files no such filter is applied.
C10_FourteenFieldFilter ==
    Decoded =>
        LET after == From(FileRecords, HeaderCount) IN
        IF dtype.field_count = 14
        THEN /\ outcome.value = SelectSeq(after, LAMBDA r : ~Invalid(r))
             /\ \A k \in 1..Len(outcome.value) : ~Invalid(outcome.value[k])
             /\ Len(outcome.value)
                  = Len(FileRecords) - HeaderCount - Cardinality(InvalidPositions)
        ELSE outcome.value = after

\* a 14-field file: a second header record, then a record with elevation
\* -9999 and a valid record
C10_Witness ==
    /\ Decoded
    /\ dtype.field_count = 14
    /\ Len(recs) = 3
    /\ HeaderCount = 2
    /\ recs[1].rel_time < 0
    /\ recs[2].elevation = -9999 /\ recs[2].latitude # 0
    /\ ~Invalid(recs[3])
    /\ outcome.value = <<ReadRecord(recs[3], dtype)>>

---------------------------------------------------------------------------
(* Properties of _atm1b_qfit_data *)

Converted == pc = "converted"

\* every record after the header is invalid
AllPostHeaderInvalid ==
    \A k \in (HeaderCount + 1)..Len(FileRecords) : Invalid(FileRecords[k])

\* C11: when every post-header record of a 14-field file is invalid,
\* _atm1b_qfit_data returns an empty result rather than failing.
C11_AllInvalidGivesEmpty ==
    (Converted /\ dtype.field_count = 14 /\ AllPostHeaderInvalid)
        => outcome = Returned(<<>>)

\* the conversion of a qfit file or of an HDF5 file returned a frame
ConvertReturned ==
    pc \in {"converted", "h5_converted"} /\ outcome.kind = "return"

\* the frame before the conversions and the augmentation
FrameBefore ==
    IF pc = "converted" THEN QfitDataframe(word, recs).outcome.value
    ELSE _ilatm1bv2_dataframe(recs)

\* the optional fields the source variant has
SourceOptionalFields ==
    IF pc = "converted" THEN LayoutFields(dtype.field_count) ELSE GpsFields

OptionalFields == GpsFields \union PassiveFields

AllFields == CommonFields \union OptionalFields \union {"utc_datetime"}

\* C12: after the augmentation the rows of every source variant (10-, 12-,
\* 14-field qfit, 12-variable HDF5) carry the same field set; every optional
\* field the variant lacks holds NaN, never zero; the fields the variant has
\* are left unchanged.
C12_SameFieldsMissingAreNaN ==
    ConvertReturned =>
        /\ Len(outcome.value) = Len(FrameBefore)
        /\ \A k \in 1..Len(outcome.value) :
              /\ DOMAIN outcome.value[k] = AllFields
              /\ \A f \in OptionalFields \ SourceOptionalFields :
                    outcome.value[k][f] = NaN
              /\ \A f \in (DOMAIN FrameBefore[k])
                            \ {"latitude", "longitude", "elevation"} :
                    outcome.value[k][f] = FrameBefore[k][f]

\* a 12-field file whose record stores 0 in its own optional fields: the row
\* keeps the 0 and gets NaN in the passive fields
C12_Witness ==
    /\ pc = "converted"
    /\ outcome.kind = "return"
    /\ dtype.field_count = 12
    /\ Len(outcome.value) >= 1
    /\ outcome.value[1].gps_pdop = 0
    /\ outcome.value[1].passive_signal = NaN

---------------------------------------------------------------------------
(* Properties of _file_dtype *)

\* _file_dtype has run on the first word of the file
DtypeDone == pc \in {"decoded", "converted"}

\* the record size _file_dtype settles on: the big-endian reading unless it
\* is 100 or more
RecordSize == IF BigEndianWord(word) >= 100 THEN LittleEndianWord(word)
              ELSE BigEndianWord(word)

ValidRecordSizes == {40, 48, 56}

\* C13: _file_dtype returns a layout only when the record size is exactly
\* 40, 48 or 56 bytes (10, 12 or 14 fields); for every other record size,
\* sizes not divisible by 4 and negative sizes included, it fails.
C13_LayoutOnlyForExactSizes ==
    DtypeDone => (dtype # NoDtype <=> RecordSize \in ValidRecordSizes)

\* C14: a first word that is a valid record size (40, 48 or 56) under one
\* byte order and at least 100 under the other selects the byte order of the
\* valid reading and the layout of its field count; a first word that is at
\* least 100 under both byte orders raises ValueError.
C14_EndiannessDetection ==
    DtypeDone =>
        LET be == BigEndianWord(word)
            le == LittleEndianWord(word)
        IN /\ (be \in ValidRecordSizes /\ le >= 100)
                 => dtype = [endianness |-> "BIG", field_count |-> be \div 4]
           /\ (le \in ValidRecordSizes /\ be >= 100)
                 => dtype = [endianness |-> "LITTLE", field_count |-> le \div 4]
           /\ (be >= 100 /\ le >= 100)
                 => (outcome = Raised("ValueError") /\ dtype = NoDtype)

\* a file whose first word is 48 read little-endian
C14_Witness ==
    /\ DtypeDone
    /\ LittleEndianWord(word) = 48
    /\ BigEndianWord(word) >= 100
    /\ dtype = [endianness |-> "LITTLE", field_count |-> 12]

---------------------------------------------------------------------------
(* Properties of the conversions *)

\* the longitude of row k before the shift, in millionths of a degree
LonBefore(k) ==
    IF pc = "converted" THEN FrameBefore[k].longitude
    ELSE FrameBefore[k].longitude.e6

\* the longitude of row k of the returned frame, in millionths of a degree
LonAfter(k) == outcome.value[k].longitude.e6

\* x lies in [-180, 180)
InCanonicalRange(x) == x >= -180000000 /\ x < 180000000

\* C15 as stated: for every longitude x the decoder can produce,
\* _shift_lon(x) = x - 360.0 when x >= 180.0 and the result lies in
\* [-180, 180); _shift_lon(x) = x when x < 180.0.
C15_ShiftLonAsStated ==
    ConvertReturned =>
        \A k \in 1..Len(outcome.value) :
            IF LonBefore(k) >= 180000000
            THEN /\ LonAfter(k) = LonBefore(k) - 360000000
                 /\ InCanonicalRange(LonAfter(k))
            ELSE LonAfter(k) = LonBefore(k)

\* C15: _shift_lon(x) = x - 360.0 when x >= 180.0 and _shift_lon(x) = x when
\* x < 180.0; the result lies in [-180, 180) exactly when -180 <= x < 540.
C15_ShiftLon ==
    ConvertReturned =>
        \A k \in 1..Len(outcome.value) :
            /\ LonAfter(k) = IF LonBefore(k) >= 180000000
                             THEN LonBefore(k) - 360000000
                             ELSE LonBefore(k)
            /\ InCanonicalRange(LonAfter(k))
                 <=> (LonBefore(k) >= -180000000 /\ LonBefore(k) < 540000000)

\* a qfit record storing 359.999999 degrees becomes -0.000001 degrees, and
\* one storing 180 degrees becomes -180 degrees
C15_Witness ==
    /\ pc = "converted"
    /\ outcome.kind = "return"
    /\ Len(outcome.value) = 2
    /\ LonBefore(1) = 359999999 /\ LonAfter(1) = -1
    /\ LonBefore(2) = 180000000 /\ LonAfter(2) = -180000000

\* the milliseconds from midnight of the file date to the timestamp of row k
MsFromFileDate(k) ==
    (outcome.value[k].utc_datetime.day - date) * MsPerDay
      + outcome.value[k].utc_datetime.ms

\* the milliseconds since midnight of the time of day t
MsOfDay(t) == ((t[1] * 60 + t[2]) * 60 + t[3]) * 1000 + t[4]

\* C16: for every packed time HHMMSSmmm with HH < 24, MM < 60, SS < 60 and
\* mmm < 1000, _utc_datetime decodes exactly (HH, MM, SS, mmm) and returns
\* the instant file_date + HH:MM:SS.mmm minus leap_seconds(file_date) seconds.
C16_UtcDatetime ==
    ConvertReturned =>
        \A k \in 1..Len(outcome.value) : \A t \in ClockTimes :
            outcome.value[k].gps_time = Pack(t) =>
                /\ TimeFieldsOf(Pack(t))
                     = [hour |-> t[1], minute |-> t[2], second |-> t[3],
                        millisecond |-> t[4]]
                /\ MsFromFileDate(k) = MsOfDay(t) - 1000 * leap_seconds(date)

\* 12:34:56.789 in a file of 2011-11-04, when 15 leap seconds were in effect
C16_Witness ==
    /\ pc = "converted"
    /\ outcome.kind = "return"
    /\ date = Date(2011, 11, 4)
    /\ Len(outcome.value) >= 1
    /\ outcome.value[1].gps_time = 123456789
    /\ outcome.value[1].utc_datetime = [day |-> date, ms |-> 45281789]

\* the fields decoded from the packed time of row k are a time of day
ValidTimeOfDay(k) ==
    LET t == TimeFieldsOf(outcome.value[k].gps_time)
    IN t.hour < 24 /\ t.minute < 60 /\ t.second < 60

\* the milliseconds since midnight decoded from the packed time of row k
DecodedMsOfDay(k) ==
    LET t == TimeFieldsOf(outcome.value[k].gps_time)
    IN ((t.hour * 60 + t.minute) * 60 + t.second) * 1000 + t.millisecond

\* C17 as stated: all timestamps _utc_datetime produces for the records of
\* one file share the same calendar date, the date derived from the filename.
C17_SameDateAsStated ==
    ConvertReturned =>
        \A k \in 1..Len(outcome.value) : outcome.value[k].utc_datetime.day = date

\* C17: all timestamps of one file are built from the date derived from the
\* filename: a record whose time of day is at least leap_seconds(file_date)
\* seconds after midnight gets the file date, and a record stamped earlier
\* gets the day before.
C17_DateFromFileDate ==
    ConvertReturned =>
        \A k \in 1..Len(outcome.value) :
            ValidTimeOfDay(k) =>
                outcome.value[k].utc_datetime.day
                  = IF DecodedMsOfDay(k) >= 1000 * leap_seconds(date)
                    THEN date ELSE date - 1

\* a file with a record at 00:00:05 and a record at 12:34:56.789: the first
\* timestamp is on the day before the file date, the second on the file date
C17_Witness ==
    /\ pc = "converted"
    /\ outcome.kind = "return"
    /\ Len(outcome.value) = 2
    /\ outcome.value[1].gps_time = 5000
    /\ outcome.value[1].utc_datetime.day = date - 1
    /\ outcome.value[2].gps_time = 123456789
    /\ outcome.value[2].utc_datetime.day = date

---------------------------------------------------------------------------
(* Properties of extract_itrf *)

\* extract_itrf returned a frame
ExtractReturned ==
    ext \in Suffixes /\ pc = "done" /\ outcome.kind = "return"

\* "ITRF" followed by 2 to 4 digits
IsItrfName(str) ==
    /\ Len(str) \in 6..8
    /\ Slice(str, 1, 4) = <<"I", "T", "R", "F">>
    /\ \A k \in 5..Len(str) : str[k] \in Digits

\* C18: every frame extract_itrf assigns to a file, from the qfit header,
\* from the HDF5 metadata or from the date table, is in normalized form:
\* _normalize_itrf_str returns it unchanged, and it is "ITRF" followed by 2
\* to 4 digits.
C18_AssignedFrameIsNormalized ==
    ExtractReturned =>
        /\ _normalize_itrf_str(outcome.value) = outcome.value
        /\ IsItrfName(outcome.value)

---------------------------------------------------------------------------
(* Properties of the header search of _infer_qfit_itrf *)

\* the header has been searched
HeaderSearched == caller = "infer" /\ pc # "infer_qfit_itrf"

\* "itrf" in any letter case followed by at least 2 digits starts at p
OccurrenceAt(str, p) ==
    /\ p + 3 <= Len(str)
    /\ Upper(Slice(str, p, p + 3)) = <<"I", "T", "R", "F">>
    /\ DigitRun(str, p + 4, 4) >= 2

\* the distinct texts of the occurrences, each with its 2 to 4 digits
OccurrencesAnyCase(str) ==
    {Slice(str, p, p + 3 + DigitRun(str, p + 4, 4)) :
        p \in {q \in 1..Len(str) : OccurrenceAt(str, q)}}

\* C19: _infer_qfit_itrf finds every occurrence in the header text of "itrf"
\* followed by 2 to 4 digits, regardless of letter case, and counts the
\* occurrences of the same token once.
C19_FindsTokensInAnyCase ==
    HeaderSearched => itrfs = OccurrencesAnyCase(header)

\* C20: when the header yields no ITRF token or more than one distinct
\* token, _infer_qfit_itrf returns exactly the frame _qfit_itrf_from_date
\* gives for the file date (and fails as it fails), and no header token
\* influences the result.
C20_FallbackIsTableOnly ==
    (InferDone /\ ~OneHeaderToken) =>
        IF Covered(date)
        THEN outcome = Returned(TableItrf(date)) /\ log = <<"fallback">>
        ELSE outcome = Raised("RuntimeError")

\* header "itrf05itrf97" on a day of the ITRF93 range: two distinct tokens,
\* the table's frame is returned
C20_Witness ==
    /\ InferDone
    /\ header = <<"i", "t", "r", "f", "0", "5", "i", "t", "r", "f", "9", "7">>
    /\ Cardinality(itrfs) = 2
    /\ date = Date(1993, 6, 23)
    /\ outcome = Returned(ITRF93)
    /\ log = <<"fallback">>

---------------------------------------------------------------------------
(* Properties of check_itrf *)

ItrfChecked == pc = "checked"

\* the number of characters of str after its first four
TailLen(str) == Len(str) - 4

\* str is "ITRF" followed by digits only (possibly none)
ItrfThenDigits(str) ==
    /\ Len(str) >= 4
    /\ Slice(str, 1, 4) = <<"I", "T", "R", "F">>
    /\ \A k \in 5..Len(str) : str[k] \in Digits

---------------------------------------------------------------------------
(* Properties of create_iceflow_parquet *)

\* the parquet holds a part written before the call
HasOldPart == \E k \in 1..Len(parquet.parts) : parquet.parts[k].old

\* the parquet holds a part written by the call
HasNewPart == \E k \in 1..Len(parquet.parts) : ~parquet.parts[k].old

\* the call has written to the parquet
HasWritten == \E k \in 1..Len(ops) : ops[k] \in {"write", "append"}

\* an iceflow.parquet existed when the call began
ExistedBefore == HasOldPart \/ (\E k \in 1..Len(ops) : ops[k] = "rmtree")

ApiDone == pc = "api_done"

\* C22: create_iceflow_parquet never appends to or modifies an
\* iceflow.parquet that existed before the call.  With overwrite=False it
\* raises RuntimeError before any search, download or write and leaves the
\* parquet as it was; with overwrite=True the existing parquet is removed
\* before the first write (or the removal fails and nothing is written), so
\* a returned parquet holds only data of this call.
C22_ExistingParquetNeverTouched ==
    /\ HasOldPart => (parquet \in ParquetsBefore /\ ~HasWritten)
    /\ (ApiDone /\ ExistedBefore /\ ~overwrite)
          => (outcome = Raised("RuntimeError") /\ ops = <<>>)
    /\ (pc # "create_iceflow_parquet" /\ ExistedBefore /\ overwrite)
          => \/ ops # <<>> /\ ops[1] = "rmtree" /\ ~HasOldPart
             \/ outcome = Raised("NotADirectoryError") /\ ops = <<>>
    /\ (ApiDone /\ outcome.kind = "return") => ~HasOldPart

\* an existing parquet, overwrite=True, two results of one dataset: the old
\* parquet is removed first and the result holds the two new parts
C22_Witness ==
    /\ ApiDone
    /\ overwrite
    /\ outcome.kind = "return"
    /\ ops = <<"rmtree", "search", "write", "append">>
    /\ parquet = [kind |-> "dir", parts |-> <<NewPart("g1"), NewPart("g2")>>]

---------------------------------------------------------------------------
(* Properties of BoundingBox *)

BboxBuilt == pc \in {"bbox_built", "bbox_read", "bbox_iterated"}

\* one list or tuple was handed in
OneSequence == Len(bbox_args) = 1 /\ bbox_args[1].is_seq

\* the number of positional values handed in
PositionalCount ==
    IF OneSequence THEN Len(bbox_args[1].items) ELSE Len(bbox_args)

\* the four values handed in, in the order lower_left_lon, lower_left_lat,
\* upper_right_lon, upper_right_lat, whatever the form of the call
GivenValues ==
    IF bbox_args = <<>>
    THEN [k \in 1..4 |-> bbox_kwargs.value[FieldNames[k]].v]
    ELSE IF OneSequence THEN bbox_args[1].items
    ELSE [k \in 1..4 |-> bbox_args[k].v]

\* C23: a BoundingBox built from four keyword arguments, from four
\* positional arguments or from one list or tuple of four values holds the
\* values handed in, so equal values give equal boxes; iterating it and
\* indexing it by 0..3 yield lower_left_lon, lower_left_lat, upper_right_lon,
\* upper_right_lat in that order; indexing by a field name yields that field;
\* a count of positional values other than four raises ValueError.
C23_BoundingBox ==
    /\ BboxBuilt =>
          \A k \in 1..4 : bbox.fields[FieldNames[k]] = GivenValues[k]
    /\ pc = "bbox_iterated" => outcome = Returned(GivenValues)
    /\ (pc = "bbox_read" /\ bbox_idx.type = "int" /\ bbox_idx.int \in 0..3)
          => outcome = Returned(GivenValues[bbox_idx.int + 1])
    /\ pc = "bbox_read" =>
          \A k \in 1..4 :
              bbox_idx = StrIdx(FieldNames[k]) => outcome = Returned(GivenValues[k])
    /\ (pc # "bbox_new" /\ bbox_args # <<>> /\ PositionalCount # 4)
          => (pc = "bbox_failed" /\ outcome = Raised("ValueError"))

\* BoundingBox([-103, -75, -75, -103])[2] is the upper right longitude
C23_Witness ==
    /\ pc = "bbox_read"
    /\ bbox_args = <<ListArg(<<-103, -75, -75, -103>>)>>
    /\ bbox_idx = IntIdx(2)
    /\ outcome = Returned(-75)
    /\ bbox.fields.upper_right_lon = -75
    /\ bbox.fields.upper_right_lat = -103

---------------------------------------------------------------------------
(* Properties of the search _find *)

\* a call of _find is about to run with (i, lower, upper)
AtFind == pc = "find"

\* C24: at every step of the recursive search, for every query date, the
\* current index satisfies lower <= i < upper for the bounds of that step.
C24_IndexWithinBounds ==
    AtFind => (lower <= i /\ i < upper)

\* C25: for every query date the recursive search terminates: it reaches a
\* return after finitely many calls, so it never revisits a state
\* (i, lower, upper).
C25_SearchTerminates == <>(pc = "done")

\* the search for 2002-12-01 has ended after moving its lower bound
C25_Witness ==
    /\ DirectDone
    /\ date = Date(2002, 12, 1)
    /\ lower > 0
    /\ outcome = Returned(ITRF2000)

\* C26: at every step of the recursive search, for every query date, the
\* index used to read the table satisfies 0 <= i < len(ATM1B_GRANULE_ITRFS).
C26_IndexWithinTable ==
    AtFind => (0 <= i /\ i < NRanges)

\* the search for 2002-12-01 reads entry 1 after entry 8
C26_Witness ==
    /\ AtFind
    /\ date = Date(2002, 12, 1)
    /\ i = 1
    /\ lower = 5
    /\ upper = 8

---------------------------------------------------------------------------
(* Properties of _strip_header *)

\* the position in the file (from 1) of the first record after record 0
\* whose first field is not negative
FirstDataPosition ==
    CHOOSE p \in 2..Len(FileRecords) :
        /\ FileRecords[p].rel_time >= 0
        /\ \A q \in 2..(p - 1) : FileRecords[q].rel_time < 0

\* the records _strip_header returned, before the filter of 14-field files
Stripped ==
    IF dtype.field_count = 14
    THEN SelectSeq(SubSeq(FileRecords, FirstDataPosition, Len(FileRecords)),
                   LAMBDA r : ~Invalid(r))
    ELSE SubSeq(FileRecords, FirstDataPosition, Len(FileRecords))

\* C27: _strip_header drops record 0 whatever its first field, and every
\* following record up to but not including the first record at index >= 1
\* whose first field is non-negative; all records from that one on are
\* returned in their original order, later records with a negative first
\* field included.
C27_StripHeader ==
    Decoded =>
        /\ outcome.value = Stripped
        /\ dtype.field_count # 14 =>
              /\ Len(outcome.value) = Len(FileRecords) - FirstDataPosition + 1
              /\ \A k \in 1..Len(outcome.value) :
                    outcome.value[k] = FileRecords[FirstDataPosition + k - 1]

\* a 10-field file with records -1, 5, -1 after record 0: the first is
\* header, the other two are data, the negative one included
C27_Witness ==
    /\ Decoded
    /\ dtype.field_count = 10
    /\ Len(recs) = 3
    /\ recs[1].rel_time < 0
    /\ recs[2].rel_time >= 0
    /\ recs[3].rel_time < 0
    /\ outcome.value = <<ReadRecord(recs[2], dtype), ReadRecord(recs[3], dtype)>>

---------------------------------------------------------------------------
(* Properties of the rows transform_itrf returns *)

\* either transform_itrf has returned a frame
AnyTransformReturned ==
    /\ pc \in {"transformed", "iceflow.transformed"}
    /\ outcome.kind = "return"

\* the rows of the result that carry the time of the p-th input row
OutputRowsOf(p) ==
    {q \in 1..Len(outcome.value) :
        outcome.value[q].utc_datetime = data[p].utc_datetime}

OutputRowOf(p) == CHOOSE q \in OutputRowsOf(p) : TRUE

\* the place of the p-th input row in its group
PlaceInGroup(p) ==
    Cardinality({k \in 1..p : data[k].ITRF = data[p].ITRF})

\* the engine calls made for the group of the p-th input row
CallsOf(p) == {c \in 1..Len(calls) : calls[c].source = data[p].ITRF}

\* the p-th input row comes back with the engine's outputs for its place:
\* the first as longitude, the second as latitude, the third as elevation
ReceivesOwnOutputs(p) ==
    LET row == outcome.value[OutputRowOf(p)]
        j == PlaceInGroup(p)
    IN /\ Cardinality(CallsOf(p)) = 1
       /\ \A c \in CallsOf(p) :
            /\ Len(calls[c].out.xx) = Len(GroupRows(data, data[p].ITRF))
            /\ row.longitude = calls[c].out.xx[j]
            /\ row.latitude = calls[c].out.yy[j]
            /\ row.elevation = calls[c].out.zz[j]

RowsKept ==
    /\ Len(outcome.value) = Len(data)
    /\ \A p \in 1..Len(data) :
          /\ Cardinality(OutputRowsOf(p)) = 1
          /\ outcome.value[OutputRowOf(p)].rcv_sigstr = data[p].rcv_sigstr
          /\ IF CallsOf(p) = {}
             THEN outcome.value[OutputRowOf(p)] = data[p]
             ELSE ReceivesOwnOutputs(p)
    /\ \A p1, p2 \in 1..Len(data) :
          (p1 < p2 /\ data[p1].ITRF = data[p2].ITRF)
              => OutputRowOf(p1) < OutputRowOf(p2)

\* C28: transform_itrf neither drops nor duplicates rows: the result has
\* exactly one row per input row, each with its input utc_datetime and its
\* fields other than the coordinates and the frame tag unchanged; each
\* transformed row receives the engine outputs at its own position
\* (longitude, latitude, elevation in that order), a row of a group passed
\* through is the input row; rows that share a source frame keep their
\* relative input order.
C28_RowsKept == AnyTransformReturned => RowsKept

\* the same of nsidc.iceflow.itrf.converter.transform_itrf alone
RowsKeptByNsidcCopy == TransformReturned => RowsKept

---------------------------------------------------------------------------
(* Properties of the pipeline transform_itrf hands to the engine *)

\* the places of the pipeline of the c-th engine call that hold a frame
\* change from the group's source frame to target_itrf
FrameChangeSteps(c) ==
    {k \in 1..Len(calls[c].pipeline) :
        /\ calls[c].pipeline[k].op = "+inv +init"
        /\ calls[c].pipeline[k].init = target_itrf
        /\ calls[c].pipeline[k].frame = calls[c].source}

\* the places that hold a propagation to target_epoch
EpochSteps(c) ==
    {k \in 1..Len(calls[c].pipeline) :
        /\ calls[c].pipeline[k].op = "+init"
        /\ calls[c].pipeline[k].init = target_itrf
        /\ calls[c].pipeline[k].t_epoch = target_epoch.str}

\* a target_epoch was given: line 70, `if target_epoch`
EpochGiven == Truthy(target_epoch)

---------------------------------------------------------------------------
(* Properties of atm1b_data *)

\* atm1b_data has returned the data of the file
Accepted == pc = "atm1b_done" /\ outcome.kind = "return"

\* C30: for every file that atm1b_data accepts, the container it picks to
\* decode the records (HDF5 when the year of the file name is 2013 or later,
\* flat binary otherwise) is the container extract_itrf picks to resolve the
\* reference frame (by the suffix .h5 or .qi).
C30_SameContainerPicked == Accepted => picked.decode = picked.itrf

\* an HDF5 file of 2014 named .qi is accepted: decoded as HDF5, its frame
\* taken from the date table by the flat binary branch
MismatchAccepted ==
    /\ Accepted
    /\ filename.y = 2014
    /\ ext = ".qi"
    /\ content = "hdf5"
    /\ picked = [decode |-> "hdf5", itrf |-> "qfit"]
    /\ outcome.value = ITRF2008

\* files whose suffix goes with the year of the name (.h5 from 2013 on, .qi
\* before) are decoded and resolved as the same container
AgreeingNamesPickSame ==
    (Accepted /\ (ext = ".h5") = (filename.y >= 2013))
        => picked.decode = picked.itrf

====
